---- MODULE Spec2Model ----
(***************************************************************************)
(* A model of the RLM navigator daemon (src/daemon/rlm_daemon.py,          *)
(* src/daemon/rlm_repl.py, src/daemon/squeezer.py) and of the truncation   *)
(* helper of src/benchmark.py.                                             *)
(*                                                                         *)
(* The module holds several specifications over disjoint groups of         *)
(* variables; each specification keeps the variables of the other groups   *)
(* at their initial values:                                                *)
(*   SpecTrunc    truncate() and the output truncation of RLMRepl.exec     *)
(*   SpecCache    SkeletonCache.get / invalidate racing with file changes  *)
(*   SpecChunk    the ChunkStore called by the scan and the watcher, and   *)
(*                the chunks_list / chunks_read requests, a call per step  *)
(*   SpecDispatch handle_client / handle_request over a fixed file tree,   *)
(*                the responses built byte for byte                        *)
(*   SpecScan     ChunkStore.scan_all beside the watcher and chunks_list   *)
(*   SpecRepl     RLMRepl: init, exec, status, reset and a new instance    *)
(*   SpecDeps     RLMRepl: the dependency records, add_buffer, the         *)
(*                staleness report and invalidate_dependencies             *)
(*   SpecServe    handle_client from accept to close, the session          *)
(*                statistics and the sandbox actions of handle_request     *)
(*   SpecRun      run_server: the port probe, the port file, the idle      *)
(*                watchdog, the accept loop and the shutdown               *)
(*   SpecSwap     chunk_file step by step on two threads beside            *)
(*                remove_file and the chunks_list / chunks_read requests   *)
(*   SpecWatch    RLMEventHandler taking the observer's events in order    *)
(*   SpecWindows  the boundary loops of chunk_file and chunk_indices       *)
(*   SpecHandlers run_server and the threads of the connections it      *)
(*                accepts, up to the end of the process                    *)
(*   SpecStats    SessionStats.record and to_dict, statement by statement, *)
(*                on several worker threads                                *)
(*   SpecNotify   the watcher's handler calling invalidate_dependencies    *)
(*                while a worker thread is in RLMRepl.exec                 *)
(***************************************************************************)
EXTENDS Integers, Sequences, FiniteSets, TLC

VARIABLES
    \* ---- SpecTrunc
    text,        \* the argument of truncate() / the captured stdout of exec
    max_chars,   \* the cap handed to truncate()
    once,        \* truncate(text, max_chars), or None before the call
    twice,       \* truncate(once, max_chars), or None before the call
    output,      \* the "output" field RLMRepl.exec returns, or None
    \* ---- SpecCache
    clock,       \* the last mtime the file system handed out
    files,       \* path -> [exists, content, mtime]: the files on disk
    held,        \* history: <<path, mtime, content>> the file system ever held
    events,      \* the watchdog events not yet handled, oldest first
    cache,       \* SkeletonCache._cache: path -> skeleton
    mtimes,      \* SkeletonCache._mtimes: path -> mtime
    wpc,         \* worker thread -> its place in the squeeze handler
    wpath,       \* worker thread -> the path of its request
    wmtime,      \* worker thread -> the local `mtime` of its get
    wskel,       \* worker thread -> the local `skeleton` of its get, then what
                 \* the get returned
    whow,        \* history: how the get ended: "hit", "miss", "absent", "raised"
    wquiet,      \* history: no file operation on wpath since the get began
    \* ---- SpecChunk
    chunk_size,  \* ChunkStore.chunk_size
    overlap,     \* ChunkStore.overlap
    dirs,        \* path -> the chunk directory of the file, or NoDir
    scanned,     \* the files scan_all has visited
    lastcall,    \* history: the last call into the chunk store and how it ended
    ncalls,      \* history: the number of calls of chunk_file
    ntmp,        \* history: the number of temporary directories created
    resp,        \* the response of the last chunks_list / chunks_read request
    \* ---- SpecDispatch
    dpc,         \* where the connection is: "idle", "received", "sent"
    nconn,       \* the number of connections accepted
    req,         \* the request of the connection
    reply,       \* the response sent on the connection
    opened,      \* history: the files read while the request was handled
    \* ---- SpecScan
    sclock,      \* the last mtime the file system handed out
    sfiles,      \* path -> [exists, kind, mtime]: the project tree on disk
    sdirs,       \* path -> the manifest of the file's chunk directory, or NoDir
    sevents,     \* the watchdog events not yet handled, oldest first
    stouched,    \* history: the files modified or deleted since the start
    spc,         \* the scan thread: "walk", "swap", "rename", "done", "dead"
    swalkdirs,   \* os.walk: the directories still to list
    swalkfiles,  \* scan_all: the file names of the listed directory still to
                 \* visit
    scur,        \* chunk_file of the scan: the file and the mtime it read
    lpc,         \* the chunks_list request: "idle", "read"
    lpath,       \* the path of the chunks_list request
    sresp,       \* the last chunks_list response
    \* ---- SpecRepl
    rclock,      \* the last mtime the file system handed out
    rfiles,      \* path -> [exists, mtime]: the project files the helpers read
    namespace,   \* RLMRepl._namespace
    state_pkl,   \* the state file state.pkl: what was dumped, or None
    sys_stdout,  \* sys.stdout: "stdout", or "StringIO" while captured
    rn,          \* the number of calls into the sandbox
    rresp,       \* the result of the last call
    rexecs,      \* history: the exec calls ended since the last init / reset
    rread,       \* history: name -> the files read by the exec that bound it
    \* ---- SpecServe
    wired,       \* run_server: whether a sandbox and a chunk store are handed
                 \* to handle_client
    cpc,         \* the connection: "idle", "reading", "closed"
    cn,          \* the number of connections accepted
    cleft,       \* the pieces the peer still sends
    cshut,       \* the peer closes its side after its last piece
    cdata,       \* handle_client: the local `data`
    csent,       \* what sendall has written on the connection, in order
    chow,        \* history: how the read loop ended: "parsed", "eof",
                 \* "timeout", "raised"
    stats,       \* SessionStats
    \* ---- SpecRun
    port,        \* run_server: the argument `port`
    idle_timeout, \* run_server: the argument `idle_timeout`
    busy,        \* the ports of 127.0.0.1 on which bind raises OSError
    rlm_is_dir,  \* whether <root>/.rlm is a directory
    mpc,         \* the main thread: "bind", "listen", "start", "loop",
                 \* "accept", "finally", "stop", "close", "returned",
                 \* "exited", "died"
    try_port,    \* run_server: the local `try_port`
    bound_port,  \* run_server: the local `bound_port`: {} for None, else {p}
    sockname,    \* the port the socket is bound to: {} while unbound, else {p}
    port_file,   \* the content of <root>/.rlm/port, or Absent
    observer,    \* the watcher: "running", "stopped"
    server,      \* the socket: "unbound", "bound", "listening", "closed"
    idle_now,    \* time.time() - last_activity, in seconds
    shutdown_event, \* run_server: shutdown_event.is_set()
    ipc,         \* the idle_watchdog thread: "none", "wait", "check", "done"
    wake_in,     \* the seconds left of the watchdog's shutdown_event.wait
    idle_secs,   \* idle_watchdog: the local `idle_secs`, 0 outside its check
    accepted,    \* history: a connection has been accepted
    exitpath,    \* history: why the main thread left the accept loop or ended
    \* ---- SpecSwap
    xclock,      \* the last mtime the file system handed out
    xfile,       \* the source file: [exists, mtime]
    xdir,        \* the chunk directory of the file: NoDir, or the mtimes its
                 \* manifest.json and its chunk_000.txt were written for
    xtmp,        \* thread -> its temporary directory is on disk
    xpc,         \* thread -> its place in chunk_file: "idle", "swap", "rename"
    xmt,         \* thread -> chunk_file: the local `mtime`
    xevents,     \* the watchdog events of the file not yet handled
    xscanned,    \* scan_all has called chunk_file for the file
    xfaults,     \* the file operations of chunk_file that have failed
    xout,        \* history: thread -> how its last chunk_file ended
    xbefore,     \* history: thread -> the chunk directory when that call began
    xquiet,      \* history: thread -> no other thread has changed the chunk
                 \* directory since that call began
    xsealed,     \* history: a chunk directory has been sealed for the file and
                 \* no deleted event has been handled since
    xraced,      \* history: a deleted event was handled while a chunk_file of
                 \* the scan was in progress
    qpc,         \* the chunks_read request: "idle", "chunk"
    qman,        \* chunks_read: the manifest get_manifest returned
    qhad,        \* history: xsealed held when the request read the manifest
    qresp,       \* the last chunks_list / chunks_read response
    \* ---- SpecWatch
    hfiles,      \* the files of the project tree (paths below the root)
    hevents,     \* the events the observer has queued for the handler
    hstate,      \* what the handler acts on: the paths the skeleton cache
                 \* holds, the paths handed to the sandbox's dependency
                 \* tracker, the paths that have a chunk directory
    hn,          \* the changes of the tree so far
    \* ---- SpecWindows
    bargs,       \* the file and the parameters: [exists, total, size, overlap]
    bres,        \* the list of (start, end) pairs computed, and by whom
    \* ---- SpecStats, SpecHandlers, SpecNotify
    lock,        \* the thread inside `with self._lock` of the object the
                 \* specification is about, or None
    threads      \* the threads of the specification: where each of them
                 \* is, and what it holds in its local variables

varsTrunc == <<text, max_chars, once, twice, output>>

varsCache == <<clock, files, held, events, cache, mtimes, wpc, wpath, wmtime,
               wskel, whow, wquiet>>

varsChunk == <<chunk_size, overlap, dirs, scanned, lastcall, ncalls, ntmp, resp>>

\* the variables of the worker threads of SpecCache
varsWorkers == <<wpc, wpath, wmtime, wskel, whow, wquiet>>

varsDispatch == <<dpc, nconn, req, reply, opened>>

varsScan == <<sclock, sfiles, sdirs, sevents, stouched, spc, swalkdirs,
              swalkfiles, scur, lpc, lpath, sresp>>

varsRepl == <<rclock, rfiles, namespace, state_pkl, sys_stdout, rn, rresp,
              rexecs, rread>>

varsServe == <<wired, cpc, cn, cleft, cshut, cdata, csent, chow, stats>>

varsRun == <<port, idle_timeout, busy, rlm_is_dir, mpc, try_port, bound_port,
            sockname, port_file, observer, server, idle_now, shutdown_event,
            ipc, wake_in, idle_secs, accepted, exitpath>>

\* the variables of the specifications of the server's life and the watcher
varsSwap == <<xclock, xfile, xdir, xtmp, xpc, xmt, xevents, xscanned, xfaults,
             xout, xbefore, xquiet, xsealed, xraced, qpc, qman, qhad, qresp>>

varsWatch == <<hfiles, hevents, hstate, hn>>

varsWindows == <<bargs, bres>>

varsThreads == <<lock, threads>>

varsThird == <<varsRun, varsSwap, varsWatch, varsWindows, varsThreads>>

\* the variables of the specifications that follow the first four
varsLater == <<varsScan, varsRepl, varsServe, varsThird>>

\* what the steps of one specification leave alone
OutsideTrunc == <<varsCache, varsChunk, varsDispatch, varsLater>>
OutsideCache == <<varsTrunc, varsChunk, varsDispatch, varsLater>>
OutsideChunk == <<varsTrunc, varsWorkers, held, varsDispatch, varsLater>>
OutsideDispatch ==
    <<varsTrunc, varsChunk, varsWorkers, clock, files, held, events, varsLater>>
OutsideScan ==
    <<varsTrunc, varsCache, varsChunk, varsDispatch, varsRepl, varsServe,
      varsThird>>
OutsideRepl ==
    <<varsTrunc, varsCache, varsChunk, varsDispatch, varsScan, varsServe,
      varsThird>>
OutsideServe ==
    <<varsTrunc, varsChunk, varsDispatch, varsScan, varsWorkers, clock, files,
      held, events, rclock, rfiles, sys_stdout, rn, rresp, rexecs, rread,
      varsThird>>
OutsideRun ==
    <<varsTrunc, varsCache, varsChunk, varsDispatch, varsScan, varsRepl,
      varsServe, varsSwap, varsWatch, varsWindows, varsThreads>>
OutsideSwap ==
    <<varsTrunc, varsCache, varsChunk, varsDispatch, varsScan, varsRepl,
      varsServe, varsRun, varsWatch, varsWindows, varsThreads>>
OutsideWatch ==
    <<varsTrunc, varsCache, varsChunk, varsDispatch, varsScan, varsRepl,
      varsServe, varsRun, varsSwap, varsWindows, varsThreads>>
OutsideWindows ==
    <<varsTrunc, varsCache, varsChunk, varsDispatch, varsScan, varsRepl,
      varsServe, varsRun, varsSwap, varsWatch, varsThreads>>
OutsideStats ==
    <<varsTrunc, varsCache, varsChunk, varsDispatch, varsScan, varsRepl,
      wired, cpc, cn, cleft, cshut, cdata, csent, chow, varsRun, varsSwap,
      varsWatch, varsWindows>>

None == "None"

(***************************************************************************)
(* Texts.  A Python str is modelled run-length encoded: a sequence of runs *)
(* [c |-> character, n |-> count >= 1] in which neighbouring runs hold     *)
(* different characters, so that two texts are equal exactly when their    *)
(* encodings are equal and 8000-character strings stay small.              *)
(***************************************************************************)
Run(c, n) == [c |-> c, n |-> n]

\* the characters of the runs i..j
RECURSIVE TLenRange(_, _, _)
TLenRange(t, i, j) ==
    IF i > j THEN 0
    ELSE IF i = j THEN t[i].n
    ELSE TLenRange(t, i, (i + j) \div 2) + TLenRange(t, (i + j) \div 2 + 1, j)

\* len(t), t evaluated once
TLen(t) == CHOOSE n \in {TLenRange(x, 1, Len(x)) : x \in {t}} : TRUE

\* a + b of two texts
TCatRuns(a, b) ==
    IF a = <<>> THEN b
    ELSE IF b = <<>> THEN a
    ELSE IF a[Len(a)].c = b[1].c
         THEN SubSeq(a, 1, Len(a) - 1)
              \o <<Run(b[1].c, a[Len(a)].n + b[1].n)>>
              \o Tail(b)
         ELSE a \o b

\* a + b, each operand evaluated once
TCat(a, b) == CHOOSE t \in {TCatRuns(x, y) : x \in {a}, y \in {b}} : TRUE

\* t[:k] for k >= 0
RECURSIVE TTake(_, _)
TTake(t, k) ==
    IF k <= 0 \/ t = <<>> THEN <<>>
    ELSE IF t[1].n >= k THEN <<Run(t[1].c, k)>>
    ELSE <<t[1]>> \o TTake(Tail(t), k - t[1].n)

\* the text of a sequence of characters
RECURSIVE Lit(_)
Lit(s) == IF s = <<>> THEN <<>> ELSE TCat(<<Run(s[1], 1)>>, Lit(Tail(s)))

\* 'c' * n
Rep(c, n) == IF n <= 0 THEN <<>> ELSE <<Run(c, n)>>

Digits == <<"0", "1", "2", "3", "4", "5", "6", "7", "8", "9">>

\* f"{n}" of an int n >= 0
RECURSIVE IntStr(_)
IntStr(n) ==
    IF n < 10 THEN Lit(<<Digits[n + 1]>>)
    ELSE TCat(IntStr(n \div 10), Lit(<<Digits[(n % 10) + 1]>>))

\* Python's round(n / 4) of an int n >= 0: to the nearest, a tie to the even
PyRound4(n) ==
    LET q == n \div 4
        r == n % 4
    IN  IF r < 2 THEN q
        ELSE IF r > 2 THEN q + 1
        ELSE IF q % 2 = 0 THEN q ELSE q + 1

\* f"\n... (truncated, {remaining} more chars, ~{tokens_est} tokens)"
Annotation(remaining, tokens_est) ==
    TCat(Lit(<<"\n", ".", ".", ".", " ", "(", "t", "r", "u", "n", "c", "a",
               "t", "e", "d", ",", " ">>),
    TCat(IntStr(remaining),
    TCat(Lit(<<" ", "m", "o", "r", "e", " ", "c", "h", "a", "r", "s", ",",
               " ", "~">>),
    TCat(IntStr(tokens_est),
         Lit(<<" ", "t", "o", "k", "e", "n", "s", ")">>)))))

MAX_RESPONSE_CHARS == 8000
MAX_OUTPUT_CHARS == 8000

\* truncate() with the comparison "len(text) < max_chars"
truncate_lt(t, cap) ==
    IF TLen(t) < cap THEN t
    ELSE LET remaining == TLen(t) - cap
             tokens_est == PyRound4(remaining)
         IN  TCat(TTake(t, cap), Annotation(remaining, tokens_est))

\* benchmark.py: truncate(text, max_chars)
truncate(t, cap) ==
    IF TLen(t) <= cap THEN t
    ELSE LET remaining == TLen(t) - cap
             tokens_est == PyRound4(remaining)
         IN  TCat(TTake(t, cap), Annotation(remaining, tokens_est))

\* rlm_repl.py: the truncation of the captured output in RLMRepl.exec
exec_output(captured) ==
    IF TLen(captured) > MAX_OUTPUT_CHARS
    THEN LET remaining == TLen(captured) - MAX_OUTPUT_CHARS
             tokens_est == remaining \div 4
         IN  TCat(TTake(captured, MAX_OUTPUT_CHARS),
                  Annotation(remaining, tokens_est))
    ELSE captured

(***************************************************************************)
(* SpecTrunc: the inputs are drawn in Init, the actions apply the          *)
(* functions.                                                              *)
(***************************************************************************)
MaxSmallCap == 2     \* truncate() is also called with the caps 0..MaxSmallCap
MaxOver == 48        \* the texts are up to MaxOver characters over the cap
BigLen == 20000      \* the 20 000-character print of the spec's scenario

Caps == (0 .. MaxSmallCap) \cup {MAX_RESPONSE_CHARS}

Lengths(cap) == {l \in (cap - 2) .. (cap + MaxOver) : l >= 0} \cup {BigLen}

\* the texts handed in: 'x' * l, and the same ending in the newline of print()
TextsOf(cap) ==
    {Rep("x", l) : l \in Lengths(cap)}
    \cup {TCat(Rep("x", l - 1), Lit(<<"\n">>)) : l \in Lengths(cap) \ {0}}

InitTrunc ==
    /\ max_chars \in Caps
    /\ text \in TextsOf(max_chars)
    /\ once = None
    /\ twice = None
    /\ output = None

\* once = truncate(text, max_chars)
TruncateOnce ==
    /\ once = None
    /\ once' = truncate(text, max_chars)
    /\ UNCHANGED <<text, max_chars, twice, output>>
    /\ UNCHANGED OutsideTrunc

\* twice = truncate(once, max_chars)
TruncateTwice ==
    /\ once # None
    /\ twice = None
    /\ twice' = truncate(once, max_chars)
    /\ UNCHANGED <<text, max_chars, once, output>>
    /\ UNCHANGED OutsideTrunc

\* exec(code) whose code printed `text`
ReplExecOutput ==
    /\ output = None
    /\ output' = exec_output(text)
    /\ UNCHANGED <<text, max_chars, once, twice>>
    /\ UNCHANGED OutsideTrunc

NextTrunc == TruncateOnce \/ TruncateTwice \/ ReplExecOutput

vars == <<varsTrunc, varsCache, varsChunk, varsDispatch, varsLater>>

(***************************************************************************)
(* SpecCache: SkeletonCache and the squeeze handler on worker threads, the *)
(* file system changing underneath, and the watchdog thread invalidating.  *)
(* Each `with self._lock` block of SkeletonCache is one step; squeeze(),   *)
(* which runs outside the lock, is two steps (path.exists(), then the      *)
(* read), so that file operations interleave where they can in the code.   *)
(* Every write gives the file an mtime it never had before.                *)
(***************************************************************************)
MaxFsOps == 2        \* the file operations (writes, deletions) of a run

Workers == {"w1", "w2"}

Paths == {"a.py", "notes.txt"}

\* squeezer.py, EXT_MAP: a .py file is parsed by its grammar, a .txt file has
\* no language
_detect_language(p) ==
    IF Len(p) > 3 /\ SubSeq(p, Len(p) - 2, Len(p)) = ".py" THEN "python"
    ELSE None

\* file contents: the signatures and the bodies below them
Contents == {[sig |-> "def f():", body |-> "pass", lines |-> 2, utf8 |-> TRUE],
             [sig |-> "def g():", body |-> "return 1", lines |-> 2, utf8 |-> TRUE]}

NoContent == [sig |-> None, body |-> None, lines |-> 0, utf8 |-> FALSE]

Missing == [exists |-> FALSE, content |-> NoContent, mtime |-> 0]

\* the None of Optional[str], and an exception leaving the call
Absent == [kind |-> "None"]
Raised == [kind |-> "raised"]

\* squeezer.py: what squeeze() / _fallback_squeeze() return for a file read
\* with content c: the signatures with the bodies replaced by "...", and for
\* a file without language the preview of its first lines
skeleton_of(p, c) ==
    IF _detect_language(p) = None
    THEN [kind |-> "preview", name |-> p, sig |-> c.sig, body |-> c.body,
          lines |-> c.lines]
    ELSE [kind |-> "skeleton", name |-> p, sig |-> c.sig, body |-> "...",
          lines |-> c.lines]

\* squeezer.py:298, the text squeeze() returns when path.exists() is false
error_not_found(p) ==
    [kind |-> "text", name |-> p, sig |-> "Error: file not found", body |-> None,
     lines |-> 0]

\* squeezer.py:409, the text _fallback_squeeze() returns when the read fails
error_reading(p) ==
    [kind |-> "text", name |-> p, sig |-> "Error reading", body |-> None,
     lines |-> 0]

InitCache ==
    /\ clock = 0
    /\ files = [p \in Paths |-> Missing]
    /\ held = {}
    /\ events = <<>>
    /\ cache = << >>
    /\ mtimes = << >>
    /\ wpc = [t \in Workers |-> "idle"]
    /\ wpath = [t \in Workers |-> None]
    /\ wmtime = [t \in Workers |-> 0]
    /\ wskel = [t \in Workers |-> Absent]
    /\ whow = [t \in Workers |-> None]
    /\ wquiet = [t \in Workers |-> FALSE]

\* a map without the key k (dict.pop(k, None))
Pop(f, k) == [x \in DOMAIN f \ {k} |-> f[x]]

\* a map with f[k] = v (dict[k] = v)
Put(f, k, v) == [x \in DOMAIN f \cup {k} |-> IF x = k THEN v ELSE f[x]]

\* history: a file operation on p disturbs the gets of p in progress
Disturb(p) == wquiet' = [t \in Workers |-> wquiet[t] /\ wpath[t] # p]

\* the file system: p is written (created or modified) with content c
WriteFile(p, c) ==
    /\ clock < MaxFsOps
    /\ clock' = clock + 1
    /\ files' = [files EXCEPT ![p] =
                   [exists |-> TRUE, content |-> c, mtime |-> clock + 1]]
    /\ held' = held \cup {<<p, clock + 1, c>>}
    /\ events' = Append(events,
                        [kind |-> IF files[p].exists THEN "modified"
                                  ELSE "created",
                         path |-> p])
    /\ Disturb(p)
    /\ UNCHANGED <<cache, mtimes, wpc, wpath, wmtime, wskel, whow>>
    /\ UNCHANGED OutsideCache

\* the file system: p is deleted
DeleteFile(p) ==
    /\ clock < MaxFsOps
    /\ files[p].exists
    /\ clock' = clock + 1
    /\ files' = [files EXCEPT ![p] = Missing]
    /\ events' = Append(events, [kind |-> "deleted", path |-> p])
    /\ Disturb(p)
    /\ UNCHANGED <<held, cache, mtimes, wpc, wpath, wmtime, wskel, whow>>
    /\ UNCHANGED OutsideCache

\* SkeletonCache.invalidate(p): the state of the cache after it
invalidate(p) ==
    /\ cache' = Pop(cache, p)
    /\ mtimes' = Pop(mtimes, p)

\* RLMEventHandler.on_modified / on_created / on_deleted with no chunk store:
\* the observer thread handles the oldest event
HandleEvent ==
    /\ events # <<>>
    /\ events' = Tail(events)
    /\ IF Head(events).kind \in {"modified", "deleted"}
       THEN invalidate(Head(events).path)
       ELSE UNCHANGED <<cache, mtimes>>
    /\ UNCHANGED <<clock, files, held, wpc, wpath, wmtime, wskel, whow, wquiet>>
    /\ UNCHANGED OutsideCache

\* handle_request: a worker thread takes a squeeze request for p
StartSqueeze(t, p) ==
    /\ wpc[t] = "idle"
    /\ wpc' = [wpc EXCEPT ![t] = "get"]
    /\ wpath' = [wpath EXCEPT ![t] = p]
    /\ wquiet' = [wquiet EXCEPT ![t] = TRUE]
    /\ UNCHANGED <<clock, files, held, events, cache, mtimes, wmtime, wskel,
                   whow>>
    /\ UNCHANGED OutsideCache

\* a lookup that does not compare the mtime
IsHit_any_mtime(p, m) == p \in DOMAIN cache

\* the entry of p is a hit for the mtime m
IsHit(p, m) == p \in DOMAIN cache /\ mtimes[p] = m

\* SkeletonCache.get, the first locked block: getmtime, then the lookup
GetLocked(t) ==
    /\ wpc[t] = "get"
    /\ LET p == wpath[t] IN
       IF ~files[p].exists
       THEN /\ wskel' = [wskel EXCEPT ![t] = Absent]
            /\ whow' = [whow EXCEPT ![t] = "absent"]
            /\ wpc' = [wpc EXCEPT ![t] = "reply"]
            /\ UNCHANGED wmtime
       ELSE IF IsHit(p, files[p].mtime)
       THEN /\ wskel' = [wskel EXCEPT ![t] = cache[p]]
            /\ whow' = [whow EXCEPT ![t] = "hit"]
            /\ wmtime' = [wmtime EXCEPT ![t] = files[p].mtime]
            /\ wpc' = [wpc EXCEPT ![t] = "reply"]
       ELSE /\ wmtime' = [wmtime EXCEPT ![t] = files[p].mtime]
            /\ wpc' = [wpc EXCEPT ![t] = "exists"]
            /\ UNCHANGED <<wskel, whow>>
    /\ UNCHANGED <<clock, files, held, events, cache, mtimes, wpath, wquiet>>
    /\ UNCHANGED OutsideCache

\* squeeze(), outside the lock: path.exists()
SqueezeExists(t) ==
    /\ wpc[t] = "exists"
    /\ IF files[wpath[t]].exists
       THEN /\ wpc' = [wpc EXCEPT ![t] = "read"]
            /\ UNCHANGED wskel
       ELSE /\ wskel' = [wskel EXCEPT ![t] = error_not_found(wpath[t])]
            /\ wpc' = [wpc EXCEPT ![t] = "store"]
    /\ UNCHANGED <<clock, files, held, events, cache, mtimes, wpath, wmtime,
                   whow, wquiet>>
    /\ UNCHANGED OutsideCache

\* squeeze(), outside the lock: the file is read and reduced; a file that is
\* gone by now makes read_bytes() raise, or _fallback_squeeze() return its
\* error text
SqueezeRead(t) ==
    /\ wpc[t] = "read"
    /\ LET p == wpath[t] IN
       IF files[p].exists
       THEN /\ wskel' = [wskel EXCEPT ![t] = skeleton_of(p, files[p].content)]
            /\ wpc' = [wpc EXCEPT ![t] = "store"]
            /\ UNCHANGED whow
       ELSE IF _detect_language(p) = None
       THEN /\ wskel' = [wskel EXCEPT ![t] = error_reading(p)]
            /\ wpc' = [wpc EXCEPT ![t] = "store"]
            /\ UNCHANGED whow
       ELSE /\ wskel' = [wskel EXCEPT ![t] = Raised]
            /\ whow' = [whow EXCEPT ![t] = "raised"]
            /\ wpc' = [wpc EXCEPT ![t] = "reply"]
    /\ UNCHANGED <<clock, files, held, events, cache, mtimes, wpath, wmtime,
                   wquiet>>
    /\ UNCHANGED OutsideCache

\* the mtime SkeletonCache.get stores with the skeleton: its local `mtime`
stored_mtime(t) == wmtime[t]

\* SkeletonCache.get, the second locked block: the entry is stored
GetStore(t) ==
    /\ wpc[t] = "store"
    /\ cache' = Put(cache, wpath[t], wskel[t])
    /\ mtimes' = Put(mtimes, wpath[t], stored_mtime(t))
    /\ whow' = [whow EXCEPT ![t] = "miss"]
    /\ wpc' = [wpc EXCEPT ![t] = "reply"]
    /\ UNCHANGED <<clock, files, held, events, wpath, wmtime, wskel, wquiet>>
    /\ UNCHANGED OutsideCache

\* handle_request "squeeze" after cache.get, and handle_client's handler of
\* an exception: the response to the request for p
squeeze_response(p, result) ==
    IF result = Absent
    THEN [kind |-> "error", body |-> "File not found", of |-> p]
    ELSE IF result = Raised
    THEN [kind |-> "error", body |-> "exception", of |-> p]
    ELSE [kind |-> "skeleton", body |-> result, of |-> p]

\* the response a worker thread at "reply" is about to send
Response(t) == squeeze_response(wpath[t], wskel[t])

\* the response is sent and the worker thread ends
SqueezeReply(t) ==
    /\ wpc[t] = "reply"
    /\ wpc' = [wpc EXCEPT ![t] = "idle"]
    /\ wpath' = [wpath EXCEPT ![t] = None]
    /\ wmtime' = [wmtime EXCEPT ![t] = 0]
    /\ wskel' = [wskel EXCEPT ![t] = Absent]
    /\ whow' = [whow EXCEPT ![t] = None]
    /\ wquiet' = [wquiet EXCEPT ![t] = FALSE]
    /\ UNCHANGED <<clock, files, held, events, cache, mtimes>>
    /\ UNCHANGED OutsideCache

NextCache ==
    \/ \E p \in Paths, c \in Contents : WriteFile(p, c)
    \/ \E p \in Paths : DeleteFile(p)
    \/ HandleEvent
    \/ \E t \in Workers, p \in Paths : StartSqueeze(t, p)
    \/ \E t \in Workers : GetLocked(t)
    \/ \E t \in Workers : SqueezeExists(t)
    \/ \E t \in Workers : SqueezeRead(t)
    \/ \E t \in Workers : GetStore(t)
    \/ \E t \in Workers : SqueezeReply(t)

(***************************************************************************)
(* SpecChunk: the ChunkStore, its two callers (the initial scan and the    *)
(* watcher) and the chunks_list / chunks_read requests.  Every call is one *)
(* step.  A source file is its number of lines and what the lines hold; a  *)
(* chunk file is its header line and the slice of lines written under it.  *)
(***************************************************************************)
DefaultChunkSize == 200
DefaultOverlap == 20
SmallChunkSize == 3
MaxChunkIdx == 3

\* the (chunk_size, overlap) a ChunkStore is constructed with
Params ==
    {<<DefaultChunkSize, DefaultOverlap>>,
     <<SmallChunkSize, 1>>,
     <<SmallChunkSize - 1, 0>>}

\* the lengths of the source files: around one window and around two, and
\* two windows and a half
LineCounts(size, ov) ==
    {0, 1, size, size + 1, 2 * size - ov, 2 * size - ov + 1, (5 * size) \div 2}

\* what is written to the source files: text of some length, or bytes that
\* do not decode as UTF-8
ChunkContents(size, ov) ==
    [sig : {"def f():"}, body : {"pass"},
     lines : LineCounts(size, ov), utf8 : {TRUE}]
    \cup {[sig |-> None, body |-> "\\xff", lines |-> 1, utf8 |-> FALSE]}

\* no chunk directory
NoDir == [kind |-> "None"]

Min(a, b) == IF a <= b THEN a ELSE b

\* ChunkStore.chunk_file, the loop computing the boundaries from one start
RECURSIVE boundaries_from(_, _, _, _)
boundaries_from(start, total_lines, size, ov) ==
    IF start <= total_lines
    THEN LET end == Min(start + size - 1, total_lines)
         IN  <<<<start, end>>>> \o
             (IF end = total_lines
              THEN <<>>
              ELSE boundaries_from(end + 1 - ov, total_lines, size, ov))
    ELSE <<>>

\* boundaries whose next start is the line after the previous end
boundaries_no_overlap(total_lines, size, ov) ==
    boundaries_from(1, total_lines, size, 0)

\* ChunkStore.chunk_file: the boundaries of a file of total_lines lines
boundaries(total_lines, size, ov) ==
    boundaries_from(1, total_lines, size, ov)

\* lines[s - 1:e] of the content c
Slice(c, s, e) == [from |-> s, to |-> Min(e, c.lines), of |-> c]

\* the chunk file of the boundary (s, e): the header line, then the lines
chunk_text(p, c, s, e) ==
    [header |-> [rel |-> p, s |-> s, e |-> e], lines |-> Slice(c, s, e)]

\* ChunkStore.chunk_file: the directory written for the file f of path p
written_dir(p, f, size, ov) ==
    LET b == boundaries(f.content.lines, size, ov)
    IN  [chunks |-> [i \in 1..Len(b) |->
                       chunk_text(p, f.content, b[i][1], b[i][2])],
         manifest |-> [total_chunks |-> Len(b),
                       chunk_size |-> size,
                       overlap |-> ov,
                       total_lines |-> f.content.lines,
                       mtime |-> f.mtime]]

\* the state of a ChunkStore(root, chunks_dir, size, ov) before any call
ChunkRest(size, ov) ==
    /\ chunk_size = size
    /\ overlap = ov
    /\ dirs = [p \in Paths |-> NoDir]
    /\ scanned = {}
    /\ lastcall = Absent
    /\ ncalls = 0
    /\ ntmp = 0
    /\ resp = Absent

InitChunk == \E pr \in Params : ChunkRest(pr[1], pr[2])

\* the file system: p is written (created or modified) with content c
SaveFile(p, c) ==
    /\ clock < MaxFsOps
    /\ clock' = clock + 1
    /\ files' = [files EXCEPT ![p] =
                   [exists |-> TRUE, content |-> c, mtime |-> clock + 1]]
    /\ events' = Append(events,
                        [kind |-> IF files[p].exists THEN "modified"
                                  ELSE "created",
                         path |-> p])
    /\ UNCHANGED <<cache, mtimes>>
    /\ UNCHANGED varsChunk
    /\ UNCHANGED OutsideChunk

\* the file system: p is deleted
UnlinkFile(p) ==
    /\ clock < MaxFsOps
    /\ files[p].exists
    /\ clock' = clock + 1
    /\ files' = [files EXCEPT ![p] = Missing]
    /\ events' = Append(events, [kind |-> "deleted", path |-> p])
    /\ UNCHANGED <<cache, mtimes>>
    /\ UNCHANGED varsChunk
    /\ UNCHANGED OutsideChunk

\* chunk_file that rewrites whatever the manifest records
chunk_file_outcome_no_gate(p) ==
    IF ~files[p].exists THEN "not a file"
    ELSE IF ~files[p].content.utf8 THEN "not text"
    ELSE IF files[p].content.lines = 0 THEN "empty"
    ELSE "written"

\* ChunkStore.chunk_file: where the call returns
chunk_file_outcome(p) ==
    IF ~files[p].exists THEN "not a file"
    ELSE IF ~files[p].content.utf8 THEN "not text"
    ELSE IF dirs[p] # NoDir /\ dirs[p].manifest.mtime = files[p].mtime
    THEN "unchanged"
    ELSE IF files[p].content.lines = 0 THEN "empty"
    ELSE "written"

\* ChunkStore.chunk_file(p), called by the scan or by the watcher
chunk_file(p, by) ==
    /\ ncalls' = ncalls + 1
    /\ lastcall' = [name |-> "chunk_file", path |-> p, by |-> by,
                    outcome |-> chunk_file_outcome(p)]
    /\ IF chunk_file_outcome(p) = "written"
       THEN /\ ntmp' = ntmp + 1
            /\ dirs' = [dirs EXCEPT ![p] =
                          written_dir(p, files[p], chunk_size, overlap)]
       ELSE UNCHANGED <<ntmp, dirs>>

\* ChunkStore.remove_file(p)
remove_file(p) ==
    /\ lastcall' = [name |-> "remove_file", path |-> p, by |-> "watcher",
                    outcome |-> IF dirs[p] = NoDir THEN "absent"
                                ELSE "removed"]
    /\ dirs' = [dirs EXCEPT ![p] = NoDir]
    /\ UNCHANGED <<ncalls, ntmp>>

\* ChunkStore.scan_all: the walk reaches p
ScanFile(p) ==
    /\ p \notin scanned
    /\ scanned' = scanned \cup {p}
    /\ chunk_file(p, "scan")
    /\ UNCHANGED <<chunk_size, overlap, resp>>
    /\ UNCHANGED <<clock, files, events, cache, mtimes>>
    /\ UNCHANGED OutsideChunk

\* RLMEventHandler.on_modified / on_created / on_deleted with a chunk
\* store: the observer thread handles the oldest event
HandleChunkEvent ==
    /\ events # <<>>
    /\ events' = Tail(events)
    /\ LET ev == Head(events) IN
       /\ IF ev.kind \in {"modified", "deleted"}
          THEN invalidate(ev.path)
          ELSE UNCHANGED <<cache, mtimes>>
       /\ IF ev.kind = "deleted"
          THEN remove_file(ev.path)
          ELSE chunk_file(ev.path, "watcher")
    /\ UNCHANGED <<chunk_size, overlap, scanned, resp>>
    /\ UNCHANGED <<clock, files>>
    /\ UNCHANGED OutsideChunk

\* ChunkStore.get_manifest(p): the manifest, or None
get_manifest(p) == IF dirs[p] = NoDir THEN Absent ELSE dirs[p].manifest

\* ChunkStore.read_chunk(p, i): the text of chunk_{i:03d}.txt, or None
read_chunk(p, i) ==
    IF dirs[p] # NoDir /\ i >= 0 /\ i < Len(dirs[p].chunks)
    THEN dirs[p].chunks[i + 1]
    ELSE Absent

\* a replay that advances by the whole window
replay_start_no_overlap(i, total_lines, csize, coverlap) ==
    1 + i * csize

\* handle_request, chunks_read: s after the loop "for i in range(chunk_idx)"
RECURSIVE replay_start(_, _, _, _)
replay_start(i, total_lines, csize, coverlap) ==
    IF i <= 0
    THEN 1
    ELSE Min(replay_start(i - 1, total_lines, csize, coverlap) + csize - 1,
             total_lines) + 1 - coverlap

\* handle_request, action chunks_list: the response
chunks_list(p) ==
    IF get_manifest(p) = Absent
    THEN [status |-> "pending"]
    ELSE [manifest |-> get_manifest(p), status |-> "ready"]

\* handle_request, action chunks_read: the response
chunks_read(p, i) ==
    IF get_manifest(p) = Absent
    THEN [error |-> "No chunks for", path |-> p]
    ELSE IF read_chunk(p, i) = Absent
    THEN [error |-> "Chunk not found", chunk |-> i, path |-> p]
    ELSE LET m == get_manifest(p)
             s == replay_start(i, m.total_lines, m.chunk_size, m.overlap)
             end_line == Min(s + m.chunk_size - 1, m.total_lines)
         IN  [content |-> read_chunk(p, i),
              chunk |-> i,
              total_chunks |-> m.total_chunks,
              lines |-> <<s, end_line>>]

\* a chunks_list request for p is answered
ChunksList(p) ==
    /\ resp' = [action |-> "chunks_list", path |-> p, chunk |-> 0,
                body |-> chunks_list(p)]
    /\ UNCHANGED <<chunk_size, overlap, dirs, scanned, lastcall, ncalls, ntmp>>
    /\ UNCHANGED <<clock, files, events, cache, mtimes>>
    /\ UNCHANGED OutsideChunk

\* a chunks_read request for chunk i of p is answered
ChunksRead(p, i) ==
    /\ resp' = [action |-> "chunks_read", path |-> p, chunk |-> i,
                body |-> chunks_read(p, i)]
    /\ UNCHANGED <<chunk_size, overlap, dirs, scanned, lastcall, ncalls, ntmp>>
    /\ UNCHANGED <<clock, files, events, cache, mtimes>>
    /\ UNCHANGED OutsideChunk

\* the source files the chunk store is exercised on
ChunkPaths == {"a.py"}

NextChunk ==
    \/ \E p \in ChunkPaths, c \in ChunkContents(chunk_size, overlap) :
          SaveFile(p, c)
    \/ \E p \in ChunkPaths : UnlinkFile(p)
    \/ \E p \in ChunkPaths : ScanFile(p)
    \/ HandleChunkEvent
    \/ \E p \in ChunkPaths : ChunksList(p)
    \/ \E p \in ChunkPaths, i \in -1..MaxChunkIdx : ChunksRead(p, i)

(***************************************************************************)
(* SpecDispatch: handle_client and handle_request over a fixed tree of     *)
(* files.  A connection is three steps: the request arrives, the handler   *)
(* answers it, the connection is closed.  A path is the sequence of its    *)
(* components, its str() a string; the tree has no symbolic links, so      *)
(* resolve() only takes ".." out.  A response is a text, byte for byte.    *)
(***************************************************************************)
MaxSegs == 2
MaxConns == 2
BigLineLen == 9000

\* the text of the characters i..j of a string
RECURSIVE StrRange(_, _, _)
StrRange(s, i, j) ==
    IF i > j THEN <<>>
    ELSE IF i = j THEN <<Run(SubSeq(s, i, i), 1)>>
    ELSE TCat(StrRange(s, i, (i + j) \div 2),
              StrRange(s, (i + j) \div 2 + 1, j))

\* the text of a string
Str(s) == StrRange(s, 1, Len(s))

\* the one code point of U+2014 in the skeleton headers
EmDash == "U+2014"

\* t repeated n times
RECURSIVE TRepeat(_, _)
TRepeat(t, n) == IF n <= 0 THEN <<>> ELSE TCat(t, TRepeat(t, n - 1))

\* what json.dumps (ensure_ascii) writes for one character
JsonChar(c) ==
    IF c = "\n" THEN Str("\\n")
    ELSE IF c = "\"" THEN Str("\\\"")
    ELSE IF c = "\\" THEN Str("\\\\")
    ELSE IF c = EmDash THEN Str("\\u2014")
    ELSE <<Run(c, 1)>>

\* what json.dumps writes for the runs i..j of the text t
RECURSIVE JsonEscapeRange(_, _, _)
JsonEscapeRange(t, i, j) ==
    IF i > j THEN <<>>
    ELSE IF i = j
    THEN IF JsonChar(t[i].c) = <<Run(t[i].c, 1)>>
         THEN <<t[i]>>
         ELSE TRepeat(JsonChar(t[i].c), t[i].n)
    ELSE TCat(JsonEscapeRange(t, i, (i + j) \div 2),
              JsonEscapeRange(t, (i + j) \div 2 + 1, j))

\* the inside of the JSON string of the text t, t evaluated once
JsonEscape(t) ==
    CHOOSE e \in {JsonEscapeRange(x, 1, Len(x)) : x \in {t}} : TRUE

\* json.dumps of a str
JsonString(t) == TCat(Str("\""), TCat(JsonEscape(t), Str("\"")))

\* the texts i..j of a sequence joined with sep
RECURSIVE TJoinRange(_, _, _, _)
TJoinRange(ts, i, j, sep) ==
    IF i > j THEN <<>>
    ELSE IF i = j THEN ts[i]
    ELSE TCat(TJoinRange(ts, i, (i + j) \div 2, sep),
              TCat(sep, TJoinRange(ts, (i + j) \div 2 + 1, j, sep)))

\* sep.join(ts), ts and sep evaluated once
TJoin(ts, sep) ==
    CHOOSE t \in {TJoinRange(x, 1, Len(x), y) : x \in {ts}, y \in {sep}} : TRUE

\* json.dumps of a dict, given as the sequence of its <<key, value text>>
JsonMembers(pairs) ==
    TCat(Str("{"),
    TCat(TJoin([i \in 1..Len(pairs) |->
                  TCat(JsonString(Str(pairs[i][1])),
                       TCat(Str(": "), pairs[i][2]))],
               Str(", ")),
         Str("}")))

\* the same, the pairs evaluated once
JsonObject(pairs) == CHOOSE o \in {JsonMembers(ps) : ps \in {pairs}} : TRUE

\* json.dumps of a list, given as the sequence of its value texts
JsonArray(items) == TCat(Str("["), TCat(TJoin(items, Str(", ")), Str("]")))

\* json.dumps({"error": msg})
ErrorReply(msg) == JsonObject(<<<<"error", JsonString(msg)>>>>)

\* ---- the tree of files
Root == <<"p">>

\* a Python source with one function: what the parser finds in it
PySource(name) ==
    [kind |-> "file",
     lines |-> <<Str("def " \o name \o "():"), Str("    pass")>>,
     symbols |-> <<[name |-> name, signature |-> "def " \o name \o "():",
                    depth |-> 0, start_line |-> 1, end_line |-> 2]>>]

\* a text file of one long line
BigText ==
    [kind |-> "file", lines |-> <<Rep("x", BigLineLen)>>, symbols |-> <<>>]

Directory == [kind |-> "dir", lines |-> <<>>, symbols |-> <<>>]
NoNode == [kind |-> "missing", lines |-> <<>>, symbols |-> <<>>]

\* the project /p and its sibling /pq
Tree ==
    (<<>> :> Directory) @@
    (<<"p">> :> Directory) @@
    (<<"p", "a.py">> :> PySource("f")) @@
    (<<"p", "big.txt">> :> BigText) @@
    (<<"p", "sub">> :> Directory) @@
    (<<"p", "sub", "a.py">> :> PySource("f")) @@
    (<<"pq">> :> Directory) @@
    (<<"pq", "a.py">> :> PySource("g"))

Node(path) == IF path \in DOMAIN Tree THEN Tree[path] ELSE NoNode

\* the files below the directory dir, as rglob("*") yields them
FilesBelow(dir) ==
    {f \in DOMAIN Tree :
        /\ Tree[f].kind = "file"
        /\ Len(f) > Len(dir)
        /\ SubSeq(f, 1, Len(dir)) = dir}

\* the entries of the directory dir, as iterdir() yields them
Entries(dir) ==
    {f \in DOMAIN Tree : Len(f) = Len(dir) + 1 /\ SubSeq(f, 1, Len(dir)) = dir}

\* str(path) of an absolute path
RECURSIVE PathStr(_)
PathStr(path) ==
    IF path = <<>> THEN "/"
    ELSE IF Len(path) = 1 THEN "/" \o path[1]
    ELSE PathStr(SubSeq(path, 1, Len(path) - 1)) \o "/" \o path[Len(path)]

\* the path argument of a request as the client wrote it
RECURSIVE SegsStr(_)
SegsStr(segs) ==
    IF segs = <<>> THEN ""
    ELSE IF Len(segs) = 1 THEN segs[1]
    ELSE segs[1] \o "/" \o SegsStr(Tail(segs))

PathArg(r) == SegsStr(r.segs)

\* Path.resolve() without symbolic links: ".." steps up, not above "/"
RECURSIVE Walk(_, _)
Walk(cur, segs) ==
    IF segs = <<>> THEN cur
    ELSE IF Head(segs) = ".."
    THEN Walk(IF cur = <<>> THEN <<>> ELSE SubSeq(cur, 1, Len(cur) - 1),
              Tail(segs))
    ELSE Walk(Append(cur, Head(segs)), Tail(segs))

\* (root_path / path).resolve() of a relative path
Resolve(r) == Walk(Root, r.segs)

\* str.startswith
StartsWith(s, prefix) ==
    Len(s) >= Len(prefix) /\ SubSeq(s, 1, Len(prefix)) = prefix

\* handle_request: abs_path.startswith(str(root_path))
InsideRoot(path) == StartsWith(PathStr(path), PathStr(Root))

\* Path.relative_to(root_path) raises ValueError
NotRelativeToRoot(path) ==
    ~(Len(path) >= Len(Root) /\ SubSeq(path, 1, Len(Root)) = Root)

\* the relative path of a path under the root, with "/" between the parts
RelStr(path) == SegsStr(SubSeq(path, Len(Root) + 1, Len(path)))

\* the text None of an Optional[str]
NoText == <<Run(None, 0)>>

\* "\n".join(lines)
JoinLines(lines) == TJoin(lines, Str("\n"))

\* _count_lines / len(text.split("\n")) of a file written without a final
\* newline
CountLines(node) == Len(node.lines)

\* st_size of a file: its lines and the newlines between them
FileSize(node) == TLen(JoinLines(node.lines))

\* squeezer.py, squeeze(): the lines of one symbol
SymbolLines(sk) ==
    <<TCat(Str(sk.signature),
           TCat(Str("  # L"),
           TCat(IntStr(sk.start_line),
           TCat(Str("-"), IntStr(sk.end_line))))),
      Str("    ..."),
      <<>>>>

RECURSIVE AllSymbolLines(_)
AllSymbolLines(sks) ==
    IF sks = <<>> THEN <<>>
    ELSE SymbolLines(sks[1]) \o AllSymbolLines(Tail(sks))

\* f"# {path.name} " and the dash after it
HeaderStart(path) ==
    TCat(Str("# " \o path[Len(path)] \o " "), TCat(<<Run(EmDash, 1)>>, Str(" ")))

\* squeezer.py, _fallback_squeeze(): the first 20 lines under a header; a
\* directory cannot be read as text
_fallback_squeeze(path) ==
    IF Node(path).kind = "dir"
    THEN Str("Error reading " \o PathStr(path) \o ": [Errno 21] Is a directory: '"
             \o PathStr(path) \o "'")
    ELSE LET total == CountLines(Node(path))
             shown == SubSeq(Node(path).lines, 1, Min(total, 20))
             preview ==
                 IF total > 20
                 THEN TCat(JoinLines(shown),
                           TCat(Str("\n... ("),
                           TCat(IntStr(total - 20), Str(" more lines)"))))
                 ELSE JoinLines(shown)
         IN  TCat(HeaderStart(path),
             TCat(Str("unsupported language ("),
             TCat(IntStr(total),
             TCat(Str(" lines)\n"), preview))))

\* squeezer.py, squeeze(file_path)
squeeze(path) ==
    IF Node(path).kind = "missing"
    THEN Str("Error: file not found: " \o PathStr(path))
    ELSE IF _detect_language(PathStr(path)) = None
    THEN _fallback_squeeze(path)
    ELSE IF Node(path).symbols = <<>>
    THEN TCat(HeaderStart(path),
         TCat(Str("no structural elements found ("),
         TCat(IntStr(CountLines(Node(path))), Str(" lines)"))))
    ELSE JoinLines(
           <<TCat(HeaderStart(path),
             TCat(IntStr(Len(Node(path).symbols)),
             TCat(Str(" symbols, "),
             TCat(IntStr(CountLines(Node(path))), Str(" lines")))))>>
           \o AllSymbolLines(Node(path).symbols))

\* SkeletonCache.get(path): None when getmtime fails.  The tree does not
\* change, so a cached skeleton is the skeleton squeeze() returns
cache_get(path) ==
    IF Node(path).kind = "missing" THEN NoText ELSE squeeze(path)

\* the cache after get(path) of each path of the set S
cache_after(S) ==
    LET stored == {PathStr(f) : f \in {g \in S : Node(g).kind # "missing"}}
        entry(k) == IF \E f \in S : PathStr(f) = k
                   THEN squeeze(CHOOSE f \in S : PathStr(f) = k)
                   ELSE cache[k]
    IN  [k \in DOMAIN cache \cup stored |-> entry(k)]

mtimes_after(S) ==
    LET stored == {PathStr(f) : f \in {g \in S : Node(g).kind # "missing"}}
    IN  [k \in DOMAIN mtimes \cup stored |-> 1]

\* squeezer.py, find_symbol(path, symbol_name): the line range, or None
find_symbol(path, symbol_name) ==
    LET sks == Node(path).symbols
        hits == {i \in 1..Len(sks) : sks[i].name = symbol_name}
    IN  IF _detect_language(PathStr(path)) = None \/ hits = {}
        THEN <<>>
        ELSE LET i == CHOOSE j \in hits : \A k \in hits : j <= k
             IN  <<sks[i].start_line, sks[i].end_line>>

\* str(e) of the ValueError of Path.relative_to
NotInSubpath(path) ==
    Str("'" \o PathStr(path) \o "' is not in the subpath of '" \o PathStr(Root)
        \o "' OR one path is relative and the other is absolute.")

\* the names of the tree in the order of str.lower()
NameOrder == <<"a.py", "big.txt", "p", "pq", "sub">>

NameIndex(name) == CHOOSE i \in 1..Len(NameOrder) : NameOrder[i] = name

NameBefore(a, b) == NameIndex(a) < NameIndex(b)

\* the entries of a directory in the order of build_tree: the directories
\* first, then by name
RECURSIVE SortedEntries(_)
SortedEntries(S) ==
    IF S = {} THEN <<>>
    ELSE LET first == CHOOSE f \in S : \A g \in S :
                          \/ f = g
                          \/ Tree[f].kind = "dir" /\ Tree[g].kind # "dir"
                          \/ /\ (Tree[f].kind = "dir") = (Tree[g].kind = "dir")
                             /\ NameBefore(f[Len(f)], g[Len(g)])
         IN  <<first>> \o SortedEntries(S \ {first})

\* build_tree: the dict of one file
FileEntry(f) ==
    JsonObject(<<
        <<"type", JsonString(Str("file"))>>,
        <<"name", JsonString(Str(f[Len(f)]))>>,
        <<"path", JsonString(Str(RelStr(f)))>>,
        <<"size", IntStr(FileSize(Tree[f]))>>,
        <<"language", IF _detect_language(PathStr(f)) = None
                      THEN Str("null")
                      ELSE JsonString(Str(_detect_language(PathStr(f))))>> >>)

\* build_tree(dir): the dicts of the entries of dir, in order
RECURSIVE build_tree(_)
build_tree(dir) ==
    LET items == SortedEntries(Entries(dir))
        DirEntry(d) ==
            JsonObject(<<
                <<"type", JsonString(Str("dir"))>>,
                <<"name", JsonString(Str(d[Len(d)]))>>,
                <<"path", JsonString(Str(RelStr(d)))>>,
                <<"children", IntStr(Len(build_tree(d)))>>,
                <<"entries", JsonArray(build_tree(d))>> >>)
    IN  [i \in 1..Len(items) |->
           IF Tree[items[i]].kind = "dir" THEN DirEntry(items[i])
           ELSE FileEntry(items[i])]

\* the characters of the runs i..j of a short text
RECURSIVE ExpandRange(_, _, _)
ExpandRange(t, i, j) ==
    IF i > j THEN <<>>
    ELSE IF i = j THEN [k \in 1..t[i].n |-> t[i].c]
    ELSE ExpandRange(t, i, (i + j) \div 2)
         \o ExpandRange(t, (i + j) \div 2 + 1, j)

\* the characters of a short text
Expand(t) == ExpandRange(t, 1, Len(t))

UpperCase == "ABCDEFGHIJKLMNOPQRSTUVWXYZ"
LowerCase == "abcdefghijklmnopqrstuvwxyz"

\* str.lower() of one character
Lower(c) ==
    IF \E i \in 1..Len(UpperCase) : SubSeq(UpperCase, i, i) = c
    THEN LET i == CHOOSE j \in 1..Len(UpperCase) : SubSeq(UpperCase, j, j) = c
         IN  SubSeq(LowerCase, i, i)
    ELSE c

\* query.lower() in line.lower(), line a sequence of characters
Contains(chars, query) ==
    LET low == [i \in 1..Len(chars) |-> Lower(chars[i])]
        q == [i \in 1..Len(query) |-> Lower(SubSeq(query, i, i))]
    IN  \E i \in 1..(Len(low) - Len(q) + 1) :
            SubSeq(low, i, i + Len(q) - 1) = q

\* chars.split("\n")
RECURSIVE SplitLines(_)
SplitLines(chars) ==
    IF \A i \in 1..Len(chars) : chars[i] # "\n"
    THEN <<chars>>
    ELSE LET k == CHOOSE i \in 1..Len(chars) :
                     chars[i] = "\n" /\ \A j \in 1..(i - 1) : chars[j] # "\n"
         IN  <<SubSeq(chars, 1, k - 1)>>
             \o SplitLines(SubSeq(chars, k + 1, Len(chars)))

\* line.strip()
RECURSIVE Strip(_)
Strip(chars) ==
    IF chars = <<>> THEN <<>>
    ELSE IF chars[1] \in {" ", "\n", "\t"} THEN Strip(Tail(chars))
    ELSE IF chars[Len(chars)] \in {" ", "\n", "\t"}
    THEN Strip(SubSeq(chars, 1, Len(chars) - 1))
    ELSE chars

\* the lines that hold the query, stripped, in order
RECURSIVE MatchingLines(_, _)
MatchingLines(lines, query) ==
    IF lines = <<>> THEN <<>>
    ELSE (IF Contains(lines[1], query) THEN <<Strip(lines[1])>> ELSE <<>>)
         \o MatchingLines(Tail(lines), query)

\* search_symbols: the dict of one matching file
SearchResult(f, query) ==
    LET matches == MatchingLines(SplitLines(Expand(squeeze(f))), query)
        shown == SubSeq(matches, 1, Min(Len(matches), 10))
    IN  JsonObject(<<
            <<"path", JsonString(Str(RelStr(f)))>>,
            <<"matches", JsonArray([i \in 1..Len(shown) |->
                                      JsonString(Lit(shown[i]))])>> >>)

\* the files search_symbols squeezes below base
Searched(base) ==
    {f \in FilesBelow(base) : _detect_language(PathStr(f)) # None}

\* the files whose skeleton holds the query
Matched(base, query) ==
    {f \in Searched(base) : Contains(Expand(squeeze(f)), query)}

\* the sequences that enumerate the set S
Orders(S) ==
    {o \in [1..Cardinality(S) -> S] : \A f \in S : \E i \in DOMAIN o : o[i] = f}

\* handle_request, action search, rglob yielding the files in the order o:
\* relative_to raises at the first match that is not under the root
search_reply(base, query, o) ==
    LET hits == SelectSeq(o, LAMBDA f : f \in Matched(base, query))
    IN  IF hits # <<>> /\ NotRelativeToRoot(hits[1])
        THEN ErrorReply(NotInSubpath(hits[1]))
        ELSE JsonObject(<<
                 <<"results", JsonArray([i \in 1..Len(hits) |->
                                           SearchResult(hits[i], query)])>> >>)

PathOutside == ErrorReply(Str("Path outside project root"))

\* handle_request, action squeeze
squeeze_reply(r) ==
    IF ~InsideRoot(Resolve(r)) THEN PathOutside
    ELSE IF cache_get(Resolve(r)) = NoText
    THEN ErrorReply(Str("File not found: " \o PathArg(r)))
    ELSE JsonObject(<<<<"skeleton", JsonString(cache_get(Resolve(r)))>>>>)

\* handle_request, action find
find_reply(r) ==
    IF ~InsideRoot(Resolve(r)) THEN PathOutside
    ELSE IF find_symbol(Resolve(r), r.symbol) # <<>>
    THEN JsonObject(<<
             <<"start_line", IntStr(find_symbol(Resolve(r), r.symbol)[1])>>,
             <<"end_line", IntStr(find_symbol(Resolve(r), r.symbol)[2])>> >>)
    ELSE ErrorReply(Str("Symbol '" \o r.symbol \o "' not found in "
                        \o PathArg(r)))

\* handle_request, action tree: iterdir of a file raises, relative_to of an
\* entry that is not under the root raises
tree_reply(r) ==
    LET base == Resolve(r) IN
    IF ~InsideRoot(base) THEN PathOutside
    ELSE IF Node(base).kind = "missing"
    THEN JsonObject(<<<<"tree", JsonArray(<<>>)>>>>)
    ELSE IF Node(base).kind = "file"
    THEN ErrorReply(Str("[Errno 20] Not a directory: '" \o PathStr(base) \o "'"))
    ELSE IF Entries(base) # {} /\ NotRelativeToRoot(base)
    THEN ErrorReply(NotInSubpath(SortedEntries(Entries(base))[1]))
    ELSE JsonObject(<<<<"tree", JsonArray(build_tree(base))>>>>)

\* handle_request, actions chunks_list and chunks_read with no file chunked
\* yet: _chunk_dir_for raises for a path that is not under the root
chunks_reply(r) ==
    IF ~InsideRoot(Resolve(r)) THEN PathOutside
    ELSE IF NotRelativeToRoot(Resolve(r))
    THEN ErrorReply(NotInSubpath(Resolve(r)))
    ELSE IF r.action = "chunks_list"
    THEN JsonObject(<<<<"status", JsonString(Str("pending"))>>>>)
    ELSE ErrorReply(Str("No chunks for: " \o PathArg(r)))

\* the components a request path is made of
SegNames == {"..", "pq", "sub", "a.py", "big.txt"}

RECURSIVE SeqsUpTo(_, _)
SeqsUpTo(S, n) ==
    IF n = 0 THEN {<<>>}
    ELSE LET shorter == SeqsUpTo(S, n - 1)
         IN  shorter \cup {Append(s, x) : s \in shorter, x \in S}

PathActions ==
    {"squeeze", "find", "tree", "search", "chunks_list", "chunks_read"}

\* no request: what a health probe sends
NoRequest ==
    [data |-> "empty", action |-> "", segs |-> <<>>, symbol |-> "",
     query |-> ""]

\* what a client sends: nothing, bytes that are no JSON, or a request with
\* a relative path
Requests ==
    {NoRequest, [NoRequest EXCEPT !.data = "garbage"]}
    \cup [data : {"json"}, action : {"bogus"},
          segs : {<<>>}, symbol : {""}, query : {""}]
    \cup [data : {"json"}, action : PathActions \ {"find", "search"},
          segs : SeqsUpTo(SegNames, MaxSegs), symbol : {""}, query : {""}]
    \cup [data : {"json"}, action : {"find"},
          segs : SeqsUpTo(SegNames, MaxSegs), symbol : {"f", "g"},
          query : {""}]
    \cup [data : {"json"}, action : {"search"},
          segs : SeqsUpTo(SegNames, MaxSegs), symbol : {""},
          query : {"", "f", "q"}]

\* the responses handle_client can send for the request r
Replies(r) ==
    IF r.data = "empty" THEN {Str("ALIVE")}
    ELSE IF r.data = "garbage" THEN {ErrorReply(Str("Invalid JSON"))}
    ELSE IF r.action = "squeeze" THEN {squeeze_reply(r)}
    ELSE IF r.action = "find" THEN {find_reply(r)}
    ELSE IF r.action = "tree" THEN {tree_reply(r)}
    ELSE IF r.action = "search"
    THEN IF ~InsideRoot(Resolve(r)) THEN {PathOutside}
         ELSE {search_reply(Resolve(r), r.query, o) :
                 o \in Orders(Searched(Resolve(r)))}
    ELSE IF r.action \in {"chunks_list", "chunks_read"} THEN {chunks_reply(r)}
    ELSE {ErrorReply(Str("Unknown action: " \o r.action))}

\* the files cache.get is called on while the request r is handled
Squeezed(r) ==
    IF r.data # "json" \/ ~InsideRoot(Resolve(r)) THEN {}
    ELSE IF r.action = "squeeze" THEN {Resolve(r)}
    ELSE IF r.action = "search" THEN Searched(Resolve(r))
    ELSE {}

\* the files whose content is read while the request r is handled: by
\* squeeze() on a cache miss, and by find_symbol
Opened(r) ==
    {f \in Squeezed(r) : Node(f).kind = "file" /\ PathStr(f) \notin DOMAIN cache}
    \cup (IF /\ r.data = "json" /\ r.action = "find"
             /\ InsideRoot(Resolve(r))
             /\ Node(Resolve(r)).kind = "file"
             /\ _detect_language(PathStr(Resolve(r))) # None
          THEN {Resolve(r)} ELSE {})

\* before any connection
NoDispatch ==
    /\ dpc = "idle"
    /\ nconn = 0
    /\ req = NoRequest
    /\ reply = <<>>
    /\ opened = {}

\* handle_client: the data of a connection has arrived
Receive(r) ==
    /\ dpc = "idle"
    /\ nconn < MaxConns
    /\ nconn' = nconn + 1
    /\ dpc' = "received"
    /\ req' = r
    /\ UNCHANGED <<reply, opened, cache, mtimes>>
    /\ UNCHANGED OutsideDispatch

\* handle_client: handle_request answers, or the exception it raised is
\* answered, and the response is sent
HandleRequest ==
    /\ dpc = "received"
    /\ dpc' = "sent"
    /\ reply' \in Replies(req)
    /\ opened' = Opened(req)
    /\ cache' = cache_after(Squeezed(req))
    /\ mtimes' = mtimes_after(Squeezed(req))
    /\ UNCHANGED <<req, nconn>>
    /\ UNCHANGED OutsideDispatch

\* handle_client: conn.close()
Close ==
    /\ dpc = "sent"
    /\ dpc' = "idle"
    /\ req' = NoRequest
    /\ reply' = <<>>
    /\ opened' = {}
    /\ UNCHANGED <<cache, mtimes, nconn>>
    /\ UNCHANGED OutsideDispatch

NextDispatch ==
    \/ \E r \in Requests : Receive(r)
    \/ HandleRequest
    \/ Close

(***************************************************************************)
(* SpecScan: the initial scan of the chunk store (ChunkStore.scan_all on   *)
(* its own thread) beside the watcher and the chunks_list requests.  The   *)
(* walk lists a directory in one step and visits one file per step; a      *)
(* chunk_file of the scan that rewrites is three steps (the temporary      *)
(* directory written, the old directory removed, the rename), and          *)
(* get_manifest is two (the exists() test, the read), so that they         *)
(* interleave where they can in the code.  A chunk directory is the mtime  *)
(* its manifest records; SpecChunk models what the directory holds.        *)
(***************************************************************************)
MaxScanOps == 1      \* the file operations (writes, deletions) of a run

\* rlm_daemon.py, IGNORED_DIRS (the members the tree below holds)
IGNORED_DIRS == {"node_modules", ".git"}

\* ChunkStore.scan_all: the directory names the walk does not descend into
ScanSkips(d) == d \in IGNORED_DIRS \/ SubSeq(d, 1, 1) = "."

\* the project tree: <<directory, file name>>, "" being the root itself
ScanPaths ==
    {<<"", "a.py">>, <<"", "link.txt">>, <<"", "notes.dat">>,
     <<"src", "s.py">>, <<"node_modules", "x.js">>, <<".github", "ci.yml">>}

\* no path
NoPath == <<"", "">>

\* the directories below the root
ScanSubDirs == {p[1] : p \in ScanPaths} \ {""}

\* a file on disk: a text of some lines ("text"), no byte at all ("empty"),
\* bytes that do not decode as UTF-8 ("binary"), or a symbolic link to a
\* text file outside the root ("link")
ScanFile_(kind, mtime) == [exists |-> TRUE, kind |-> kind, mtime |-> mtime]

ScanMissing == [exists |-> FALSE, kind |-> None, mtime |-> 0]

\* the chunk directory whose manifest.json records the mtime m
Manifest(m) == [mtime |-> m]

\* the sequences that hold every member of S once
Perms(S) ==
    {s \in [1..Cardinality(S) -> S] :
        \A i, j \in 1..Cardinality(S) : i # j => s[i] # s[j]}

\* the tree when the daemon starts: link.txt may be there, notes.dat is
\* empty or binary, and a.py may have a chunk directory of an earlier run,
\* written for an older mtime or for the current one
InitScan ==
    /\ sclock = 1
    /\ \E link \in BOOLEAN, odd \in {"empty", "binary"} :
          sfiles = [p \in ScanPaths |->
                      IF p = <<"", "link.txt">>
                      THEN IF link THEN ScanFile_("link", 1) ELSE ScanMissing
                      ELSE IF p = <<"", "notes.dat">>
                      THEN ScanFile_(odd, 1)
                      ELSE ScanFile_("text", 1)]
    /\ \E old \in {NoDir, Manifest(0), Manifest(1)} :
          sdirs = [p \in ScanPaths |->
                     IF p = <<"", "a.py">> THEN old ELSE NoDir]
    /\ sevents = <<>>
    /\ stouched = {}
    /\ spc = "walk"
    /\ swalkdirs = <<"">>
    /\ swalkfiles = <<>>
    /\ scur = Absent
    /\ lpc = "idle"
    /\ lpath = NoPath
    /\ sresp = Absent

\* ChunkStore.chunk_file up to the boundaries: where the call goes for the
\* file f and the chunk directory d.  The link resolves to a file outside
\* the root, which is a file and is text, and _chunk_dir_for raises the
\* ValueError of relative_to
chunk_file_path(f, d) ==
    IF ~f.exists THEN "not a file"
    ELSE IF f.kind = "binary" THEN "not text"
    ELSE IF f.kind = "link" THEN "raised"
    ELSE IF d # NoDir /\ d.mtime = f.mtime THEN "unchanged"
    ELSE IF f.kind = "empty" THEN "empty"
    ELSE "written"

\* os.walk lists the next directory: the names come in the order of the
\* directory, which is any order; scan_all drops the ignored directories
ScanListDir ==
    /\ spc = "walk"
    /\ swalkfiles = <<>>
    /\ swalkdirs # <<>>
    /\ LET d == Head(swalkdirs)
           names == {p \in ScanPaths : p[1] = d /\ sfiles[p].exists}
           subs == IF d = "" THEN {x \in ScanSubDirs : ~ScanSkips(x)} ELSE {}
       IN  \E order \in Perms(names), dorder \in Perms(subs) :
              /\ swalkfiles' = order
              /\ swalkdirs' = dorder \o Tail(swalkdirs)
    /\ UNCHANGED <<sclock, sfiles, sdirs, sevents, stouched, spc, scur, lpc,
                   lpath, sresp>>
    /\ UNCHANGED OutsideScan

\* scan_all: chunk_file(fpath) for the next file name, up to the temporary
\* directory holding the chunks and the manifest.  An exception leaving
\* chunk_file leaves scan_all, the target of the thread
ScanChunkFile ==
    /\ spc = "walk"
    /\ swalkfiles # <<>>
    /\ swalkfiles' = Tail(swalkfiles)
    /\ LET p == Head(swalkfiles)
           path == chunk_file_path(sfiles[p], sdirs[p])
       IN  /\ spc' = CASE path = "raised" -> "dead"
                       [] path = "written" -> "swap"
                       [] OTHER -> "walk"
           /\ scur' = IF path = "written"
                      THEN [path |-> p, mtime |-> sfiles[p].mtime]
                      ELSE Absent
    /\ UNCHANGED <<sclock, sfiles, sdirs, sevents, stouched, swalkdirs, lpc,
                   lpath, sresp>>
    /\ UNCHANGED OutsideScan

\* chunk_file: if chunk_dir.exists(): shutil.rmtree(chunk_dir)
ScanRmtree ==
    /\ spc = "swap"
    /\ spc' = "rename"
    /\ sdirs' = [sdirs EXCEPT ![scur.path] = NoDir]
    /\ UNCHANGED <<sclock, sfiles, sevents, stouched, swalkdirs, swalkfiles,
                   scur, lpc, lpath, sresp>>
    /\ UNCHANGED OutsideScan

\* chunk_file: tmp_dir.rename(chunk_dir); onto a directory the watcher put
\* there meanwhile the rename fails and the temporary directory is removed
ScanRename ==
    /\ spc = "rename"
    /\ spc' = "walk"
    /\ scur' = Absent
    /\ sdirs' = IF sdirs[scur.path] = NoDir
                THEN [sdirs EXCEPT ![scur.path] = Manifest(scur.mtime)]
                ELSE sdirs
    /\ UNCHANGED <<sclock, sfiles, sevents, stouched, swalkdirs, swalkfiles,
                   lpc, lpath, sresp>>
    /\ UNCHANGED OutsideScan

\* os.walk is exhausted: scan_all returns
ScanDone ==
    /\ spc = "walk"
    /\ swalkfiles = <<>>
    /\ swalkdirs = <<>>
    /\ spc' = "done"
    /\ UNCHANGED <<sclock, sfiles, sdirs, sevents, stouched, swalkdirs,
                   swalkfiles, scur, lpc, lpath, sresp>>
    /\ UNCHANGED OutsideScan

\* the scan thread
scan_all == ScanListDir \/ ScanChunkFile \/ ScanRmtree \/ ScanRename \/ ScanDone

\* the source files that are written or deleted while the daemon runs
ScanTouched == {<<"", "a.py">>, <<"src", "s.py">>}

\* the file system: the text file p is written again
ScanModify(p) ==
    /\ sclock < 1 + MaxScanOps
    /\ sfiles[p].exists
    /\ sclock' = sclock + 1
    /\ sfiles' = [sfiles EXCEPT ![p] = ScanFile_("text", sclock + 1)]
    /\ sevents' = Append(sevents, [kind |-> "modified", path |-> p])
    /\ stouched' = stouched \cup {p}
    /\ UNCHANGED <<sdirs, spc, swalkdirs, swalkfiles, scur, lpc, lpath, sresp>>
    /\ UNCHANGED OutsideScan

\* the file system: p is deleted
ScanDelete(p) ==
    /\ sclock < 1 + MaxScanOps
    /\ sfiles[p].exists
    /\ sclock' = sclock + 1
    /\ sfiles' = [sfiles EXCEPT ![p] = ScanMissing]
    /\ sevents' = Append(sevents, [kind |-> "deleted", path |-> p])
    /\ stouched' = stouched \cup {p}
    /\ UNCHANGED <<sdirs, spc, swalkdirs, swalkfiles, scur, lpc, lpath, sresp>>
    /\ UNCHANGED OutsideScan

\* RLMEventHandler.on_modified / on_deleted: the observer thread handles
\* the oldest event, _rechunk or _unchunk in one step
ScanHandleEvent ==
    /\ sevents # <<>>
    /\ sevents' = Tail(sevents)
    /\ LET ev == Head(sevents)
           p == ev.path
       IN  sdirs' =
             IF ev.kind = "deleted"
             THEN [sdirs EXCEPT ![p] = NoDir]
             ELSE IF chunk_file_path(sfiles[p], sdirs[p]) = "written"
             THEN [sdirs EXCEPT ![p] = Manifest(sfiles[p].mtime)]
             ELSE sdirs
    /\ UNCHANGED <<sclock, sfiles, stouched, spc, swalkdirs, swalkfiles, scur,
                   lpc, lpath, sresp>>
    /\ UNCHANGED OutsideScan

\* the paths of the chunks_list requests
ListPaths ==
    {<<"", "a.py">>, <<"", "link.txt">>, <<"", "notes.dat">>, <<"src", "s.py">>}

\* handle_request, action chunks_list, up to manifest_path.exists() of
\* get_manifest.  The resolved link is not below the root.  The response
\* records whether the chunk directory was there when the request came and
\* whether scan_all had returned when the response was computed
ListExists(p) ==
    /\ lpc = "idle"
    /\ lpath' = p
    /\ IF sfiles[p].exists /\ sfiles[p].kind = "link"
       THEN /\ sresp' = [path |-> p, sealed |-> FALSE,
                         body |-> [error |-> "Path outside project root"]]
            /\ lpc' = "idle"
       ELSE IF sdirs[p] = NoDir
       THEN /\ sresp' = [path |-> p, sealed |-> FALSE, scanned |-> spc = "done",
                         body |-> [status |-> "pending"]]
            /\ lpc' = "idle"
       ELSE /\ sresp' = sresp
            /\ lpc' = "read"
    /\ UNCHANGED <<sclock, sfiles, sdirs, sevents, stouched, spc, swalkdirs,
                   swalkfiles, scur>>
    /\ UNCHANGED OutsideScan

\* get_manifest: manifest_path.read_text(), None on OSError, then the
\* response of chunks_list
ListRead ==
    /\ lpc = "read"
    /\ lpc' = "idle"
    /\ sresp' = [path |-> lpath, sealed |-> TRUE, scanned |-> spc = "done",
                 body |-> IF sdirs[lpath] = NoDir
                          THEN [status |-> "pending"]
                          ELSE [manifest |-> sdirs[lpath], status |-> "ready"]]
    /\ UNCHANGED <<sclock, sfiles, sdirs, sevents, stouched, spc, swalkdirs,
                   swalkfiles, scur, lpath>>
    /\ UNCHANGED OutsideScan

NextScan ==
    \/ scan_all
    \/ \E p \in ScanTouched : ScanModify(p)
    \/ \E p \in ScanTouched : ScanDelete(p)
    \/ ScanHandleEvent
    \/ \E p \in ListPaths : ListExists(p)
    \/ ListRead

(***************************************************************************)
(* SpecRepl: the sandbox RLMRepl, the project files its helpers read, and  *)
(* its state file.  init, exec, status and reset run under self._lock from *)
(* the first statement to the last, so each call is one step, whichever    *)
(* connection thread makes it; the project files change between the calls. *)
(* The namespace is its user variables, the buffers, the exec counter, the *)
(* dependency records and whether the key _rlm_tracker_ is there; the      *)
(* helpers are re-installed with every namespace and are not state.        *)
(***************************************************************************)
MaxReplOps == 3      \* the calls into the sandbox of a run
MaxReplFsOps == 1    \* the file operations (writes, deletions) of a run

ReplPaths == {"a.py", "b.py"}

\* the paths as the codes write them: the keys of the dependency records
ReplKeys == ReplPaths \cup {"./a.py"}

\* the user variables and the buffer key the codes below bind
ReplNames == {"d", "e"}

\* the lines of p that match the pattern of the grep below: a.py holds it
Matches(p) == p = "a.py"

\* a call of a helper, as the tracker sees it
Call(helper, path) == [helper |-> helper, path |-> path]

\* a code handed to exec: the helper calls it makes, then the name it binds
\* (to a str, or to a function, which pickle refuses), then the buffer it
\* appends to, the helper calls it makes after that, and how it ends:
\* normally, with an Exception (1/0), or with a BaseException that is not an
\* Exception (raise SystemExit)
CodeThen(calls, bind, kind, buffer, then, raises) ==
    [calls |-> calls, bind |-> bind, kind |-> kind, buffer |-> buffer,
     then |-> then, raises |-> raises]

\* a code that calls no helper after add_buffer
Code(calls, bind, kind, buffer, raises) ==
    CodeThen(calls, bind, kind, buffer, <<>>, raises)

Codes ==
    {Code(<<Call("peek", "a.py")>>, "d", "str", None, "no"),
     Code(<<Call("peek", "a.py")>>, "e", "str", None, "no"),
     Code(<<>>, "d", "str", None, "no"),
     Code(<<Call("grep", ".")>>, "e", "str", None, "no"),
     Code(<<Call("chunk_indices", "b.py"), Call("write_chunks", "b.py")>>,
          "e", "str", None, "no"),
     Code(<<Call("peek", "b.py")>>, None, None, "k", "no"),
     Code(<<>>, "e", "function", None, "no"),
     Code(<<>>, None, None, None, "no"),
     Code(<<Call("peek", "a.py")>>, "d", "str", None, "Exception"),
     Code(<<Call("peek", "a.py")>>, "d", "str", None, "SystemExit")}

\* the namespace after _ensure_meta on an empty dict
EmptyNamespace ==
    [vars |-> << >>, buffers |-> << >>, exec_count |-> 0,
     deps |-> [variables |-> << >>, buffers |-> << >>], tracker |-> FALSE]

\* pickle.dumps(v) succeeds
Picklable(v) == v.kind = "str"

\* a map restricted to the keys in S
Restrict(f, S) == [x \in DOMAIN f \cap S |-> f[x]]

\* dict.update: the entries of g over those of f
Update(f, g) ==
    [x \in DOMAIN f \cup DOMAIN g |-> IF x \in DOMAIN g THEN g[x] ELSE f[x]]

\* dict.get(k, {"files": {}})["files"]
FilesOf(records, k) == IF k \in DOMAIN records THEN records[k] ELSE << >>

\* a state file that is never written
_save_state_nothing(ns) == Absent

\* RLMRepl._save_state: what pickle.dump writes, the values pickle.dumps
\* refuses and the tracker left out
_save_state(ns) ==
    [vars |-> Restrict(ns.vars, {n \in DOMAIN ns.vars : Picklable(ns.vars[n])}),
     buffers |-> ns.buffers,
     exec_count |-> ns.exec_count,
     deps |-> ns.deps]

\* RLMRepl._load_state: the namespace of an instance opened on the state
\* file
_load_state(disk) ==
    IF disk = Absent
    THEN EmptyNamespace
    ELSE [vars |-> disk.vars, buffers |-> disk.buffers,
          exec_count |-> disk.exec_count, deps |-> disk.deps,
          tracker |-> FALSE]

\* os.path.join(root, file_path): the file a path written in a code names;
\* "./a.py" names a.py
FileOf(file_path) ==
    IF Len(file_path) > 2 /\ SubSeq(file_path, 1, 2) = "./"
    THEN SubSeq(file_path, 3, Len(file_path))
    ELSE file_path

\* the files a helper call opens and reads: peek, chunk_indices and
\* write_chunks read their file if it is one, grep reads every file of the
\* walk
Reads(call, fs) ==
    IF call.helper = "grep"
    THEN {p \in ReplPaths : fs[p].exists}
    ELSE {FileOf(p) : p \in {q \in {call.path} : fs[FileOf(q)].exists}}

\* the keys a helper call hands to tracker.track_file: peek, chunk_indices
\* and write_chunks the path as the code wrote it, grep the relpath of the
\* files with a matching line
Tracks(call, fs) ==
    IF call.helper = "grep"
    THEN {p \in ReplPaths : fs[p].exists /\ Matches(p)}
    ELSE {p \in {call.path} : fs[FileOf(p)].exists}

\* _DependencyTracker.get_tracked after the helper calls `calls`
tracked_after(calls, fs) ==
    [p \in UNION {Tracks(calls[i], fs) : i \in DOMAIN calls} |->
       fs[FileOf(p)].mtime]

\* a tracker that has recorded nothing
tracked_nothing(code, fs) == << >>

\* tracker.get_tracked() as add_buffer calls it: the helper calls made so far
tracked_at_add_buffer(code, fs) == tracked_after(code.calls, fs)

\* _DependencyTracker.get_tracked after all the calls of the code
get_tracked(code, fs) == tracked_after(code.calls \o code.then, fs)

\* history: the files the calls of the code read, with the mtime they had
ReadBy(code, fs) ==
    {<<p, fs[p].mtime>> :
       p \in UNION {Reads((code.calls \o code.then)[i], fs) :
                      i \in DOMAIN (code.calls \o code.then)}}

\* RLMRepl._check_staleness over one map of dependency records
StaleIn(records, fs) ==
    {<<kp[1], kp[2],
       IF fs[FileOf(kp[2])].exists THEN "modified" ELSE "deleted">> :
       kp \in {x \in (DOMAIN records) \X ReplKeys :
                 /\ x[2] \in DOMAIN records[x[1]]
                 /\ \/ ~fs[FileOf(x[2])].exists
                    \/ fs[FileOf(x[2])].mtime # records[x[1]][x[2]]}}

\* a staleness check that finds nothing
_check_staleness_nothing(ns, fs) ==
    [variables |-> {}, buffers |-> {}, none |-> TRUE]

\* RLMRepl._check_staleness: None, or the stale variables and buffers
_check_staleness(ns, fs) ==
    IF StaleIn(ns.deps.variables, fs) = {} /\ StaleIn(ns.deps.buffers, fs) = {}
    THEN [variables |-> {}, buffers |-> {}, none |-> TRUE]
    ELSE [variables |-> StaleIn(ns.deps.variables, fs),
          buffers |-> StaleIn(ns.deps.buffers, fs), none |-> FALSE]

\* RLMRepl.status: the result
status(ns, fs) ==
    [variables |-> DOMAIN ns.vars,
     buffer_count |-> [k \in DOMAIN ns.buffers |-> Len(ns.buffers[k])],
     exec_count |-> ns.exec_count,
     staleness |-> _check_staleness(ns, fs)]

\* exec, the code run in the namespace: the name bound, add_buffer having
\* appended and merged the tracked files into the buffer's record, and the
\* key _rlm_tracker_ in place.  The value bound carries the number of the
\* call that bound it
ran(ns, code, fs, n) ==
    [ns EXCEPT
       !.tracker = TRUE,
       !.vars = IF code.bind = None THEN @
                ELSE Put(@, code.bind, [kind |-> code.kind, at |-> n]),
       !.buffers = IF code.buffer = None THEN @
                   ELSE Put(@, code.buffer,
                            Append(IF code.buffer \in DOMAIN @
                                   THEN @[code.buffer] ELSE <<>>,
                                   [kind |-> "str", at |-> n])),
       !.deps = IF code.buffer = None THEN @
                ELSE [@ EXCEPT !.buffers =
                        Put(@, code.buffer,
                            Update(FilesOf(@, code.buffer),
                                   tracked_at_add_buffer(code, fs)))]]

\* exec after the code returned or raised an Exception: the tracked files
\* merged into the record of every user variable the namespace holds, the
\* tracker popped, the counter bumped
merged(ns, code, fs) ==
    [ns EXCEPT
       !.deps = IF DOMAIN get_tracked(code, fs) = {} THEN @
                ELSE [@ EXCEPT !.variables =
                        [k \in DOMAIN @ \cup DOMAIN ns.vars |->
                           IF k \in DOMAIN ns.vars
                           THEN Update(FilesOf(@, k), get_tracked(code, fs))
                           ELSE @[k]]],
       !.tracker = FALSE,
       !.exec_count = @ + 1]

\* the call raised and nothing was returned
NoResult == [kind |-> "raised"]

\* the sandbox of a daemon that starts in a project whose files are there,
\* without a state file
InitRepl ==
    /\ rclock = 1
    /\ rfiles = [p \in ReplPaths |-> [exists |-> TRUE, mtime |-> 1]]
    /\ namespace = EmptyNamespace
    /\ state_pkl = Absent
    /\ sys_stdout = "stdout"
    /\ rn = 0
    /\ rresp = Absent
    /\ rexecs = 0
    /\ rread = << >>

\* the file system: p is written again
ReplModify(p) ==
    /\ rclock < 1 + MaxReplFsOps
    /\ rfiles[p].exists
    /\ rclock' = rclock + 1
    /\ rfiles' = [rfiles EXCEPT ![p] = [exists |-> TRUE, mtime |-> rclock + 1]]
    /\ UNCHANGED <<namespace, state_pkl, sys_stdout, rn, rresp, rexecs, rread>>
    /\ UNCHANGED OutsideRepl

\* the file system: p is deleted
ReplDelete(p) ==
    /\ rclock < 1 + MaxReplFsOps
    /\ rfiles[p].exists
    /\ rclock' = rclock + 1
    /\ rfiles' = [rfiles EXCEPT ![p] = [exists |-> FALSE, mtime |-> 0]]
    /\ UNCHANGED <<namespace, state_pkl, sys_stdout, rn, rresp, rexecs, rread>>
    /\ UNCHANGED OutsideRepl

\* RLMRepl.init
ReplInit ==
    /\ rn < MaxReplOps
    /\ rn' = rn + 1
    /\ namespace' = EmptyNamespace
    /\ state_pkl' = _save_state(EmptyNamespace)
    /\ rresp' = [op |-> "init", n |-> rn + 1, code |-> None,
                 body |-> [success |-> TRUE]]
    /\ rexecs' = 0
    /\ rread' = << >>
    /\ UNCHANGED <<rclock, rfiles, sys_stdout>>
    /\ UNCHANGED OutsideRepl

\* RLMRepl.reset
ReplReset ==
    /\ rn < MaxReplOps
    /\ rn' = rn + 1
    /\ namespace' = EmptyNamespace
    /\ state_pkl' = Absent
    /\ rresp' = [op |-> "reset", n |-> rn + 1, code |-> None,
                 body |-> [success |-> TRUE]]
    /\ rexecs' = 0
    /\ rread' = << >>
    /\ UNCHANGED <<rclock, rfiles, sys_stdout>>
    /\ UNCHANGED OutsideRepl

\* RLMRepl.status
ReplStatus ==
    /\ rn < MaxReplOps
    /\ rn' = rn + 1
    /\ rresp' = [op |-> "status", n |-> rn + 1, code |-> None,
                 body |-> status(namespace, rfiles)]
    /\ UNCHANGED <<rclock, rfiles, namespace, state_pkl, sys_stdout, rexecs,
                   rread>>
    /\ UNCHANGED OutsideRepl

\* RLMRepl.exec(code).  "except Exception" lets a SystemExit through: the
\* finally clause restores sys.stdout and the exception leaves exec with
\* the lock released
ReplExec(code) ==
    /\ rn < MaxReplOps
    /\ rn' = rn + 1
    /\ sys_stdout' = "stdout"
    /\ rexecs' = rexecs + 1
    /\ rread' = IF code.bind = None THEN rread
                ELSE Put(rread, code.bind, ReadBy(code, rfiles))
    /\ LET after == ran(namespace, code, rfiles, rn + 1) IN
       IF code.raises = "SystemExit"
       THEN /\ namespace' = after
            /\ state_pkl' = state_pkl
            /\ rresp' = [op |-> "exec", n |-> rn + 1, code |-> code,
                         body |-> NoResult]
       ELSE /\ namespace' = merged(after, code, rfiles)
            /\ state_pkl' = _save_state(merged(after, code, rfiles))
            /\ rresp' =
                 [op |-> "exec", n |-> rn + 1, code |-> code,
                  body |-> [success |-> code.raises = "no",
                            error |-> IF code.raises = "no" THEN None
                                      ELSE "Traceback",
                            variables |-> DOMAIN after.vars,
                            staleness_warning |->
                              _check_staleness(merged(after, code, rfiles),
                                               rfiles)]]
    /\ UNCHANGED <<rclock, rfiles>>
    /\ UNCHANGED OutsideRepl

\* the daemon starts again: RLMRepl.__init__ on the same state directory
ReplReopen ==
    /\ rn < MaxReplOps
    /\ rn' = rn + 1
    /\ namespace' = _load_state(state_pkl)
    /\ rresp' = Absent
    /\ UNCHANGED <<rclock, rfiles, state_pkl, sys_stdout, rexecs, rread>>
    /\ UNCHANGED OutsideRepl

NextRepl ==
    \/ \E p \in ReplPaths : ReplModify(p)
    \/ \E p \in ReplPaths : ReplDelete(p)
    \/ ReplInit
    \/ ReplReset
    \/ ReplStatus
    \/ \E code \in Codes : ReplExec(code)
    \/ ReplReopen

(***************************************************************************)
(* SpecServe: handle_client from the accept to the close, the bytes of the *)
(* peer arriving in pieces, and handle_request with the session            *)
(* statistics, the status action, the sandbox actions and a sandbox or a   *)
(* chunk store that may not be wired up.  The bytes of a connection are a  *)
(* sequence of pieces; a piece is never split by recv.  The requests name  *)
(* paths under the root; the tree is that of SpecDispatch, the sandbox     *)
(* that of SpecRepl, and no file has been chunked.                         *)
(***************************************************************************)
MaxServeConns == 2   \* the connections accepted in a run

\* the two bytes of a two-byte UTF-8 character, and a byte no UTF-8 text
\* holds
ByteC3 == "<C3>"
ByteA9 == "<A9>"
ByteFF == "<FF>"

\* the codes of the repl_exec requests
ServeCodes == {"x = 1", "raise SystemExit", "x = 'e-acute'"}

\* the code of a repl_exec request as exec runs it
CodeOf(src) ==
    IF src = "raise SystemExit"
    THEN Code(<<>>, None, None, None, "SystemExit")
    ELSE Code(<<>>, "x", "str", None, "no")

\* a request object
Req(action, segs, symbol, query, code) ==
    [data |-> "json", action |-> action, segs |-> segs, symbol |-> symbol,
     query |-> query, code |-> code]

ReplActions ==
    {"repl_init", "repl_exec", "repl_status", "repl_reset",
     "repl_export_buffers"}

ServeRequests ==
    {Req("status", <<>>, "", "", ""),
     Req("squeeze", <<"a.py">>, "", "", ""),
     Req("squeeze", <<"x.py">>, "", "", ""),
     Req("find", <<"a.py">>, "f", "", ""),
     Req("find", <<"a.py">>, "g", "", ""),
     Req("tree", <<>>, "", "", ""),
     Req("search", <<>>, "", "f", ""),
     Req("chunks_list", <<"a.py">>, "", "", ""),
     Req("chunks_read", <<"a.py">>, "", "", ""),
     Req("bogus", <<>>, "", "", "")}
    \cup {Req(a, <<>>, "", "", "") : a \in ReplActions \ {"repl_exec"}}
    \cup {Req("repl_exec", <<>>, "", "", c) : c \in ServeCodes}

\* a JSON value that is no object, and no value at all
NotADict == [Req("", <<>>, "", "", "") EXCEPT !.data = "list"]
NoValue == [Req("", <<>>, "", "", "") EXCEPT !.data = "empty"]

\* the bytes a client writes for the request r, in the pieces they may
\* arrive in: the object up to its last member, then the closing brace; the
\* accented character of a code arrives as its two bytes
RequestBytes(r) ==
    LET head ==
          "{\"action\": \"" \o r.action \o "\""
          \o (IF r.action \in PathActions
              THEN ", \"path\": \"" \o PathArg(r) \o "\"" ELSE "")
          \o (IF r.action = "find"
              THEN ", \"symbol\": \"" \o r.symbol \o "\"" ELSE "")
          \o (IF r.action = "search"
              THEN ", \"query\": \"" \o r.query \o "\"" ELSE "")
    IN  IF r.action = "repl_exec" /\ r.code = "x = 'e-acute'"
        THEN <<head \o ", \"code\": \"x = '", ByteC3, ByteA9, "'\"", "}">>
        ELSE IF r.action = "repl_exec"
        THEN <<head \o ", \"code\": \"" \o r.code \o "\"", "}">>
        ELSE <<head, "}">>

\* bytes.decode("utf-8") succeeds
Utf8Valid(data) ==
    \A i \in DOMAIN data :
       /\ data[i] # ByteFF
       /\ data[i] = ByteC3 => (i < Len(data) /\ data[i + 1] = ByteA9)
       /\ data[i] = ByteA9 => (i > 1 /\ data[i - 1] = ByteC3)

\* json.loads(data) of bytes: the value, or the exception raised
json_loads(data) ==
    IF ~Utf8Valid(data) THEN [kind |-> "UnicodeDecodeError", value |-> NoValue]
    ELSE IF \E r \in ServeRequests : RequestBytes(r) = data
    THEN [kind |-> "value",
          value |-> CHOOSE r \in ServeRequests : RequestBytes(r) = data]
    ELSE IF data = <<"[1]">> THEN [kind |-> "value", value |-> NotADict]
    ELSE [kind |-> "JSONDecodeError", value |-> NoValue]

\* what a peer sends on a connection: nothing, a request, the first piece
\* of one, a JSON list, and bytes that are no JSON
ServeTexts ==
    {RequestBytes(r) : r \in ServeRequests}
    \cup {<<>>, <<"[1]">>, <<"not json">>, <<ByteFF>>,
          <<RequestBytes(Req("status", <<>>, "", "", ""))[1]>>}

\* len(s.encode("utf-8")) of a text: the dash of the header is three bytes
Utf8Len(t) ==
    CHOOSE n \in {TLen(x) + 2 * TLen(SelectSeq(x, LAMBDA run : run.c = EmDash)) :
                   x \in {t}} : TRUE

\* max(0, n)
Max0(n) == IF n > 0 THEN n ELSE 0

\* SessionStats before any record
NoStats ==
    [tool_calls |-> 0, bytes_served |-> 0, bytes_avoided |-> 0,
     per_action |-> <<>>]

\* SessionStats.record(action, served_bytes, avoided_bytes); per_action is
\* the dict in the order of its keys
record(st, action, served_bytes, avoided_bytes) ==
    LET known == \E i \in DOMAIN st.per_action :
                    st.per_action[i].action = action
        before == IF known THEN st.per_action
                  ELSE Append(st.per_action,
                              [action |-> action, calls |-> 0,
                               bytes_served |-> 0, bytes_avoided |-> 0])
    IN  [tool_calls |-> st.tool_calls + 1,
         bytes_served |-> st.bytes_served + served_bytes,
         bytes_avoided |-> st.bytes_avoided + avoided_bytes,
         per_action |->
           [i \in DOMAIN before |->
              IF before[i].action = action
              THEN [action |-> action,
                    calls |-> before[i].calls + 1,
                    bytes_served |-> before[i].bytes_served + served_bytes,
                    bytes_avoided |-> before[i].bytes_avoided + avoided_bytes]
              ELSE before[i]]]

\* round(a / total * 100): to the nearest integer, a half to the even one
reduction_pct(a, total) ==
    IF total <= 0 THEN 0
    ELSE LET q == (100 * a) \div total
             rem == (100 * a) % total
         IN  IF 2 * rem < total THEN q
             ELSE IF 2 * rem > total THEN q + 1
             ELSE IF q % 2 = 0 THEN q ELSE q + 1

\* json.dumps(stats.to_dict()); the session is as old as the model's clock,
\* which stands still
to_dict(st) ==
    JsonObject(<<
        <<"tool_calls", IntStr(st.tool_calls)>>,
        <<"tokens_served", IntStr(st.bytes_served \div 4)>>,
        <<"tokens_avoided", IntStr(st.bytes_avoided \div 4)>>,
        <<"reduction_pct",
          IntStr(reduction_pct(st.bytes_avoided,
                               st.bytes_served + st.bytes_avoided))>>,
        <<"duration_s", IntStr(0)>>,
        <<"breakdown",
          JsonObject([i \in DOMAIN st.per_action |->
            <<st.per_action[i].action,
              JsonObject(
                <<<<"calls", IntStr(st.per_action[i].calls)>>,
                  <<"tokens_served",
                    IntStr(st.per_action[i].bytes_served \div 4)>>>>
                \o (IF st.per_action[i].bytes_avoided > 0
                    THEN <<<<"tokens_avoided",
                             IntStr(st.per_action[i].bytes_avoided \div 4)>>>>
                    ELSE <<>>))>>])>> >>)

\* handle_request, action status
status_reply(st) ==
    JsonObject(<<
        <<"status", JsonString(Str("alive"))>>,
        <<"root", JsonString(Str(PathStr(Root)))>>,
        <<"cache_size", IntStr(Cardinality(DOMAIN cache))>>,
        <<"languages", JsonArray(<<JsonString(Str("python"))>>)>>,
        <<"session", to_dict(st)>> >>)

\* json.dumps of the names of a list, in the order NameList gives them
JsonNames(names) ==
    JsonArray([i \in 1..Cardinality(names) |->
                 JsonString(Str(CHOOSE n \in names : TRUE))])

\* the sandbox actions: the namespace and the state file after the call,
\* and json.dumps of the result, or no result when the call raised
repl_call(r, ns, disk, n) ==
    IF r.action = "repl_init"
    THEN [namespace |-> EmptyNamespace,
          state_pkl |-> _save_state(EmptyNamespace),
          sent |-> <<JsonObject(<<<<"success", Str("true")>>>>)>>]
    ELSE IF r.action = "repl_reset"
    THEN [namespace |-> EmptyNamespace, state_pkl |-> Absent,
          sent |-> <<JsonObject(<<<<"success", Str("true")>>>>)>>]
    ELSE IF r.action = "repl_status"
    THEN [namespace |-> ns, state_pkl |-> disk,
          sent |-> <<JsonObject(<<
                      <<"variables", JsonNames(DOMAIN ns.vars)>>,
                      <<"buffer_count", JsonObject(<<>>)>>,
                      <<"exec_count", IntStr(ns.exec_count)>> >>)>>]
    ELSE IF r.action = "repl_export_buffers"
    THEN [namespace |-> ns, state_pkl |-> disk,
          sent |-> <<JsonObject(<<<<"buffers", JsonObject(<<>>)>>>>)>>]
    ELSE LET code == CodeOf(r.code)
             after == ran(ns, code, rfiles, n)
         IN  IF code.raises = "SystemExit"
             THEN [namespace |-> after, state_pkl |-> disk, sent |-> <<>>]
             ELSE [namespace |-> merged(after, code, rfiles),
                   state_pkl |-> _save_state(merged(after, code, rfiles)),
                   sent |-> <<JsonObject(<<
                               <<"success", Str("true")>>,
                               <<"output", JsonString(<<>>)>>,
                               <<"variables",
                                 JsonNames(DOMAIN after.vars)>> >>)>>]

\* the bytes of the lines s..e of a file as readlines() yields them
DrilledSize(node, s, e) ==
    TLen(JoinLines(SubSeq(node.lines, s, Min(e, Len(node.lines)))))
    + (IF e < Len(node.lines) THEN 1 ELSE 0)

\* the response is an object whose only member is "error": the branches of
\* handle_request that return before stats.record, and the except clause
IsErrorReply(response) ==
    TLen(response) >= 9 /\ Expand(TTake(response, 9)) = "{\"error\":"

\* handle_request: what stats.record is handed when the request r was
\* answered with response, <<served_bytes, avoided_bytes>>, or nothing: the
\* requests that end in an error record nothing, nor do the status, sandbox
\* and chunk actions
recorded(r, response) ==
    IF IsErrorReply(response) THEN <<>>
    ELSE IF r.action = "squeeze"
    THEN <<TLen(response),
           Max0(FileSize(Node(Resolve(r))) - Utf8Len(cache_get(Resolve(r))))>>
    ELSE IF r.action = "find"
    THEN LET rng == find_symbol(Resolve(r), r.symbol)
             drilled_size == DrilledSize(Node(Resolve(r)), rng[1], rng[2])
         IN  <<TLen(response) + drilled_size,
               Max0(FileSize(Node(Resolve(r))) - drilled_size)>>
    ELSE IF r.action = "tree"
    THEN <<TLen(response), 0>>
    ELSE IF r.action = "search"
    THEN LET hits == Matched(Resolve(r), r.query)
             RECURSIVE Sum(_)
             Sum(S) == IF S = {} THEN 0
                       ELSE LET f == CHOOSE g \in S : TRUE
                            IN  FileSize(Node(f)) + Sum(S \ {f})
         IN  <<TLen(response), Max0(Sum(hits) - TLen(response))>>
    ELSE <<>>

\* the requests handle_request answers from the tree alone
TreeRequests ==
    {r \in ServeRequests : r.action \notin ReplActions \cup {"status"}}

\* their responses and what is recorded for each: the tree does not change
TreeReplies ==
    [r \in TreeRequests |->
       {[response |-> x, recorded |-> recorded(r, x)] : x \in Replies(r)}]

\* the statistics after a response for which rec was handed to record
stats_after(st, action, rec) ==
    IF rec = <<>> THEN st ELSE record(st, action, rec[1], rec[2])

\* handle_request(data) for the value r json.loads gave, and the except
\* clause of handle_client around it: what is sent and the state after.  A
\* value that is no dict has no get; a SystemExit passes the except clause
handled(r, w, n) ==
    LET same(sent) ==
          [sent |-> sent, cache |-> cache, mtimes |-> mtimes,
           namespace |-> namespace, state_pkl |-> state_pkl, stats |-> stats]
    IN  IF r.data = "list"
        THEN {same(<<ErrorReply(Str("'list' object has no attribute 'get'"))>>)}
        ELSE IF r.action = "status"
        THEN {same(<<status_reply(stats)>>)}
        ELSE IF r.action \in ReplActions
        THEN IF ~w.repl
             THEN {same(<<ErrorReply(Str("REPL not available"))>>)}
             ELSE LET c == repl_call(r, namespace, state_pkl, n)
                  IN  {[same(c.sent) EXCEPT !.namespace = c.namespace,
                                            !.state_pkl = c.state_pkl]}
        ELSE IF r.action \in {"chunks_list", "chunks_read"} /\ ~w.chunk_store
        THEN {same(<<ErrorReply(Str("Chunk store not available"))>>)}
        ELSE {[same(<<t.response>>) EXCEPT
                 !.cache = cache_after(Squeezed(r)),
                 !.mtimes = mtimes_after(Squeezed(r)),
                 !.stats = stats_after(stats, r.action, t.recorded)] :
              t \in TreeReplies[r]}

\* handle_request(data): bytes that are no JSON are answered Invalid JSON
handle_request(data, w, n) ==
    IF json_loads(data).kind = "value"
    THEN handled(json_loads(data).value, w, n)
    ELSE {[sent |-> <<ErrorReply(Str("Invalid JSON"))>>, cache |-> cache,
           mtimes |-> mtimes, namespace |-> namespace,
           state_pkl |-> state_pkl, stats |-> stats]}

\* the number of bytes of a piece
PieceLen(piece) ==
    IF piece \in {ByteC3, ByteA9, ByteFF} THEN 1 ELSE Len(piece)

\* the number of bytes of the first k pieces
RECURSIVE BytesBefore(_, _)
BytesBefore(data, k) ==
    IF k = 0 THEN 0 ELSE BytesBefore(data, k - 1) + PieceLen(data[k])

\* str(e) of the UnicodeDecodeError json.loads raises in handle_client: the
\* first byte that cannot be decoded, its position and what is wrong with it
CodecError(data) ==
    LET bad(j) == \/ data[j] = ByteFF
                  \/ data[j] = ByteC3 /\ (j = Len(data) \/ data[j + 1] # ByteA9)
                  \/ data[j] = ByteA9 /\ (j = 1 \/ data[j - 1] # ByteC3)
        i == CHOOSE j \in DOMAIN data : bad(j) /\ \A k \in 1..(j - 1) : ~bad(k)
        byte == IF data[i] = ByteFF THEN "0xff"
                ELSE IF data[i] = ByteC3 THEN "0xc3" ELSE "0xa9"
        what == IF data[i] = ByteC3 /\ i = Len(data)
                THEN "unexpected end of data"
                ELSE IF data[i] = ByteC3 THEN "invalid continuation byte"
                ELSE "invalid start byte"
    IN  TCat(Str("'utf-8' codec can't decode byte " \o byte \o " in position "),
        TCat(IntStr(BytesBefore(data, i - 1)), Str(": " \o what)))

\* the daemon is up and no connection is accepted yet; handle_client is
\* handed a sandbox and a chunk store, or None for either: its defaults, and
\* what run_server hands it for a project without .rlm/
InitServe ==
    /\ wired \in [repl : BOOLEAN, chunk_store : BOOLEAN]
    /\ cpc = "idle"
    /\ cn = 0
    /\ cleft = <<>>
    /\ cshut = FALSE
    /\ cdata = <<>>
    /\ csent = <<>>
    /\ chow = None
    /\ stats = NoStats

\* the outcome o of handle_request takes effect and the connection closes
Answer(o, how) ==
    /\ cpc' = "closed"
    /\ chow' = how
    /\ csent' = o.sent
    /\ cache' = o.cache
    /\ mtimes' = o.mtimes
    /\ namespace' = o.namespace
    /\ state_pkl' = o.state_pkl
    /\ stats' = o.stats

\* run_server accepts a connection and starts handle_client on a thread;
\* the peer will send the bytes of text and then close, or then wait
Accept(bytes, shut) ==
    /\ cpc \in {"idle", "closed"}
    /\ cn < MaxServeConns
    /\ cn' = cn + 1
    /\ cpc' = "reading"
    /\ cleft' = bytes
    /\ cshut' = shut
    /\ cdata' = <<>>
    /\ csent' = <<>>
    /\ chow' = None
    /\ UNCHANGED <<wired, stats, cache, mtimes, namespace, state_pkl>>
    /\ UNCHANGED OutsideServe

\* handle_client: conn.recv returns the next k pieces and json.loads
\* probes the data: on a value the request is handled and answered, on a
\* JSONDecodeError the loop goes on, any other exception is answered with
\* its text
Recv(k) ==
    /\ cpc = "reading"
    /\ k \in 1..Len(cleft)
    /\ cleft' = SubSeq(cleft, k + 1, Len(cleft))
    /\ cdata' = cdata \o SubSeq(cleft, 1, k)
    /\ LET data == cdata \o SubSeq(cleft, 1, k) IN
       CASE json_loads(data).kind = "value" ->
              \E o \in handle_request(data, wired, cn) : Answer(o, "parsed")
         [] json_loads(data).kind = "JSONDecodeError" ->
              /\ UNCHANGED <<cpc, chow, csent, cache, mtimes, namespace,
                             state_pkl, stats>>
         [] OTHER ->
              /\ cpc' = "closed"
              /\ chow' = "raised"
              /\ csent' = <<ErrorReply(CodecError(data))>>
              /\ UNCHANGED <<cache, mtimes, namespace, state_pkl, stats>>
    /\ UNCHANGED <<wired, cn, cshut>>
    /\ UNCHANGED OutsideServe

\* handle_client: conn.recv returns b"", the peer has closed its side: a
\* connection without a byte is answered ALIVE, the data of another is
\* handed to handle_request
PeerClosed ==
    /\ cpc = "reading"
    /\ cleft = <<>>
    /\ cshut
    /\ IF cdata = <<>>
       THEN /\ cpc' = "closed"
            /\ chow' = "eof"
            /\ csent' = <<Str("ALIVE")>>
            /\ UNCHANGED <<cache, mtimes, namespace, state_pkl, stats>>
       ELSE \E o \in handle_request(cdata, wired, cn) : Answer(o, "eof")
    /\ UNCHANGED <<wired, cn, cleft, cshut, cdata>>
    /\ UNCHANGED OutsideServe

\* handle_client: conn.recv raises socket.timeout after 5 seconds without
\* a byte: ALIVE if no byte has arrived at all, and the close
Timeout ==
    /\ cpc = "reading"
    /\ ~(cleft = <<>> /\ cshut)
    /\ cpc' = "closed"
    /\ chow' = "timeout"
    /\ csent' = IF cdata = <<>> THEN <<Str("ALIVE")>> ELSE <<>>
    /\ UNCHANGED <<wired, cn, cleft, cshut, cdata, stats, cache, mtimes,
                   namespace, state_pkl>>
    /\ UNCHANGED OutsideServe

\* the thread of a connection
handle_client == (\E k \in 1..4 : Recv(k)) \/ PeerClosed \/ Timeout

NextServe ==
    \/ \E bytes \in ServeTexts, shut \in BOOLEAN : Accept(bytes, shut)
    \/ handle_client

(***************************************************************************)
(* SpecRun: run_server from the port probe to its return.  The main        *)
(* thread probes the ports, writes the port file, starts the idle watchdog *)
(* and loops over accept; the watchdog thread polls the idle time; a       *)
(* KeyboardInterrupt reaches the main thread at any point.  Time is kept   *)
(* as two durations, the idle time and the rest of the watchdog's wait;    *)
(* time passes only while the server is in the accept loop, and a thread   *)
(* whose wait has ended runs before time moves on.                         *)
(***************************************************************************)
DEFAULT_PORT == 9177

\* run_server: `for try_port in range(port, port + 20)`
ProbeCount == 20

\* the ports a socket address can hold: bind raises OverflowError outside
MaxPortNumber == 65535

\* idle_watchdog: shutdown_event.wait(60)
WatchdogPeriod == 60

\* the largest idle timeout the server is started with
MaxIdleTimeout == 100

\* the idle time is counted up to here: past every comparison of the code
IdleCap == MaxIdleTimeout + WatchdogPeriod + 1

\* the steps time advances by
TickSteps == {20}

IdleTimeouts == {0, 30, MaxIdleTimeout}

\* the hosts the server is started on: the `port` argument and the ports on
\* which bind fails
Hosts ==
    { [port |-> DEFAULT_PORT, busy |-> {}],
      [port |-> DEFAULT_PORT, busy |-> {DEFAULT_PORT, DEFAULT_PORT + 1}],
      [port |-> DEFAULT_PORT,
       busy |-> DEFAULT_PORT .. (DEFAULT_PORT + ProbeCount - 1)],
      [port |-> DEFAULT_PORT,
       busy |-> DEFAULT_PORT .. (DEFAULT_PORT + ProbeCount - 2)],
      [port |-> 0, busy |-> {}],
      [port |-> MaxPortNumber - 5,
       busy |-> (MaxPortNumber - 5) .. MaxPortNumber] }

\* the ports the system hands out for a bind to port 0
Ephemeral == {32768, 60999}

\* os.getpid()
os_getpid == "pid"

\* the main thread runs
Alive == mpc \notin {"returned", "exited", "died"}

\* the main thread is in the `while not shutdown_event.is_set()` loop
Serving == mpc \in {"loop", "accept"}

InitRun ==
    /\ \E h \in Hosts : port = h.port /\ busy = h.busy
    /\ idle_timeout \in IdleTimeouts
    /\ rlm_is_dir \in BOOLEAN
    /\ mpc = "bind"
    /\ try_port = port
    /\ bound_port = {}
    /\ sockname = {}
    /\ port_file = Absent
    /\ observer = "running"
    /\ server = "unbound"
    /\ idle_now = 0
    /\ shutdown_event = FALSE
    /\ ipc = "none"
    /\ wake_in = 0
    /\ idle_secs = 0
    /\ accepted = FALSE
    /\ exitpath = None

\* run_server: one round of the probe loop; after the last round without a
\* bind the watcher is stopped and the process exits with status 1
Bind ==
    /\ mpc = "bind"
    /\ IF try_port >= port + ProbeCount
         THEN /\ observer' = "stopped"
              /\ mpc' = "exited"
              /\ exitpath' = "no port"
              /\ UNCHANGED <<try_port, bound_port, sockname, server>>
         ELSE IF try_port < 0 \/ try_port > MaxPortNumber
         THEN \* OverflowError: not an OSError, nothing catches it
              /\ mpc' = "died"
              /\ exitpath' = "OverflowError"
              /\ UNCHANGED <<try_port, bound_port, sockname, server, observer>>
         ELSE IF try_port \in busy
         THEN /\ try_port' = try_port + 1
              /\ UNCHANGED <<mpc, bound_port, sockname, server, observer,
                             exitpath>>
         ELSE /\ bound_port' = {try_port}
              /\ \E p \in (IF try_port = 0 THEN Ephemeral \ busy
                           ELSE {try_port}) : sockname' = {p}
              /\ server' = "bound"
              /\ mpc' = "listen"
              /\ UNCHANGED <<try_port, observer, exitpath>>
    /\ UNCHANGED <<port, idle_timeout, busy, rlm_is_dir, port_file, idle_now,
                   shutdown_event, ipc, wake_in, idle_secs, accepted>>
    /\ UNCHANGED OutsideRun

\* run_server: server.listen(5), and the port file if .rlm/ is a directory
WritePortFile ==
    /\ mpc = "listen"
    /\ server' = "listening"
    /\ port_file' = IF rlm_is_dir
                      THEN [port |-> CHOOSE p \in bound_port : TRUE,
                            pid |-> os_getpid]
                      ELSE port_file
    /\ mpc' = "start"
    /\ UNCHANGED <<port, idle_timeout, busy, rlm_is_dir, try_port, bound_port,
                   sockname, observer, idle_now, shutdown_event, ipc, wake_in,
                   idle_secs, accepted, exitpath>>
    /\ UNCHANGED OutsideRun

\* run_server: `if idle_timeout > 0:` the watchdog thread is started
StartWatchdog ==
    /\ mpc = "start"
    /\ mpc' = "loop"
    /\ IF idle_timeout > 0
         THEN ipc' = "wait" /\ wake_in' = WatchdogPeriod
         ELSE UNCHANGED <<ipc, wake_in>>
    /\ UNCHANGED <<port, idle_timeout, busy, rlm_is_dir, try_port, bound_port,
                   sockname, port_file, observer, server, idle_now,
                   shutdown_event, idle_secs, accepted, exitpath>>
    /\ UNCHANGED OutsideRun

\* run_server: `while not shutdown_event.is_set():`
LoopHead ==
    /\ mpc = "loop"
    /\ IF shutdown_event
         THEN mpc' = "finally" /\ exitpath' = "idle"
         ELSE mpc' = "accept" /\ UNCHANGED exitpath
    /\ UNCHANGED <<port, idle_timeout, busy, rlm_is_dir, try_port, bound_port,
                   sockname, port_file, observer, server, idle_now,
                   shutdown_event, ipc, wake_in, idle_secs, accepted>>
    /\ UNCHANGED OutsideRun

\* run_server: accept returns a connection; update_activity, and the thread of
\* the connection is started
AcceptConn ==
    /\ mpc = "accept"
    /\ idle_now' = 0
    /\ accepted' = TRUE
    /\ mpc' = "loop"
    /\ UNCHANGED <<port, idle_timeout, busy, rlm_is_dir, try_port, bound_port,
                   sockname, port_file, observer, server, shutdown_event, ipc,
                   wake_in, idle_secs, exitpath>>
    /\ UNCHANGED OutsideRun

\* run_server: accept raises socket.timeout after one second
AcceptTimeout ==
    /\ mpc = "accept"
    /\ mpc' = "loop"
    /\ UNCHANGED <<port, idle_timeout, busy, rlm_is_dir, try_port, bound_port,
                   sockname, port_file, observer, server, idle_now,
                   shutdown_event, ipc, wake_in, idle_secs, accepted,
                   exitpath>>
    /\ UNCHANGED OutsideRun

\* run_server: accept raises another OSError; it passes the `finally`
AcceptError ==
    /\ mpc = "accept"
    /\ mpc' = "finally"
    /\ exitpath' = "error"
    /\ UNCHANGED <<port, idle_timeout, busy, rlm_is_dir, try_port, bound_port,
                   sockname, port_file, observer, server, idle_now,
                   shutdown_event, ipc, wake_in, idle_secs, accepted>>
    /\ UNCHANGED OutsideRun

\* a KeyboardInterrupt in the main thread: caught inside the `try` of the
\* accept loop, and ending the process anywhere else
Interrupt ==
    /\ Alive
    /\ IF Serving
         THEN mpc' = "finally" /\ exitpath' = "interrupt"
         ELSE mpc' = "died" /\ exitpath' = "KeyboardInterrupt"
    /\ UNCHANGED <<port, idle_timeout, busy, rlm_is_dir, try_port, bound_port,
                   sockname, port_file, observer, server, idle_now,
                   shutdown_event, ipc, wake_in, idle_secs, accepted>>
    /\ UNCHANGED OutsideRun

\* run_server, finally: `if port_file.exists(): port_file.unlink()`, an
\* OSError of unlink passed over
Unlink ==
    /\ mpc = "finally"
    /\ mpc' = "stop"
    /\ \E removed \in BOOLEAN :
         port_file' = IF removed THEN Absent ELSE port_file
    /\ UNCHANGED <<port, idle_timeout, busy, rlm_is_dir, try_port, bound_port,
                   sockname, observer, server, idle_now, shutdown_event, ipc,
                   wake_in, idle_secs, accepted, exitpath>>
    /\ UNCHANGED OutsideRun

\* run_server, finally: observer.stop(); observer.join()
StopObserver ==
    /\ mpc = "stop"
    /\ observer' = "stopped"
    /\ mpc' = "close"
    /\ UNCHANGED <<port, idle_timeout, busy, rlm_is_dir, try_port, bound_port,
                   sockname, port_file, server, idle_now, shutdown_event, ipc,
                   wake_in, idle_secs, accepted, exitpath>>
    /\ UNCHANGED OutsideRun

\* run_server, finally: server.close(), and the return
CloseServer ==
    /\ mpc = "close"
    /\ server' = "closed"
    /\ mpc' = "returned"
    /\ UNCHANGED <<port, idle_timeout, busy, rlm_is_dir, try_port, bound_port,
                   sockname, port_file, observer, idle_now, shutdown_event,
                   ipc, wake_in, idle_secs, accepted, exitpath>>
    /\ UNCHANGED OutsideRun

\* the main thread of run_server
run_server ==
    \/ Bind \/ WritePortFile \/ StartWatchdog \/ LoopHead \/ AcceptTimeout
    \/ Unlink \/ StopObserver \/ CloseServer

\* idle_watchdog: the wait of 60 seconds has ended and the event is not set:
\* `idle_secs = time.time() - last_activity` under the lock
WatchdogWake ==
    /\ Alive
    /\ ipc = "wait"
    /\ wake_in = 0
    /\ idle_secs' = idle_now
    /\ ipc' = "check"
    /\ UNCHANGED <<port, idle_timeout, busy, rlm_is_dir, mpc, try_port,
                   bound_port, sockname, port_file, observer, server, idle_now,
                   shutdown_event, wake_in, accepted, exitpath>>
    /\ UNCHANGED OutsideRun

\* a watchdog that never finds the server idle
idle_expired_never(secs, timeout) == FALSE

\* a watchdog that finds the server idle at the timeout itself
idle_expired_at(secs, timeout) == secs >= timeout

\* what the watchdog decides from the idle time it read
idle_expired(secs, timeout) == secs > timeout

\* idle_watchdog: `if idle_secs > idle_timeout:` set the event and leave,
\* else wait again
WatchdogCheck ==
    /\ Alive
    /\ ipc = "check"
    /\ IF idle_expired(idle_secs, idle_timeout)
         THEN /\ shutdown_event' = TRUE
              /\ ipc' = "done"
              /\ UNCHANGED wake_in
         ELSE /\ ipc' = "wait"
              /\ wake_in' = WatchdogPeriod
              /\ UNCHANGED shutdown_event
    /\ idle_secs' = 0
    /\ UNCHANGED <<port, idle_timeout, busy, rlm_is_dir, mpc, try_port,
                   bound_port, sockname, port_file, observer, server, idle_now,
                   accepted, exitpath>>
    /\ UNCHANGED OutsideRun

idle_watchdog == WatchdogWake \/ WatchdogCheck

\* time passes while the server is in its accept loop
Tick(d) ==
    /\ Serving
    /\ ipc # "check"
    /\ ipc = "wait" => d <= wake_in
    /\ idle_now' = Min(idle_now + d, IdleCap)
    /\ wake_in' = IF ipc = "wait" THEN wake_in - d ELSE wake_in
    /\ UNCHANGED <<port, idle_timeout, busy, rlm_is_dir, mpc, try_port,
                   bound_port, sockname, port_file, observer, server,
                   shutdown_event, ipc, idle_secs, accepted, exitpath>>
    /\ UNCHANGED OutsideRun

NextRun ==
    \/ run_server
    \/ AcceptConn
    \/ AcceptError
    \/ Interrupt
    \/ idle_watchdog
    \/ \E d \in TickSteps : Tick(d)

(***************************************************************************)
(* SpecSwap: the chunk directory of one source file while chunk_file runs  *)
(* on the scan thread and on the watcher thread, the file is modified,     *)
(* deleted and created again, and chunks_list / chunks_read requests read  *)
(* the directory.  chunk_file is three steps: up to the temporary          *)
(* directory written, the removal of the old directory, the rename.  The   *)
(* file operations of chunk_file may fail, MaxFaults times in a run.       *)
(***************************************************************************)
MaxSwapOps == 2      \* the file operations (writes, deletions) of a run

MaxFaults == 1       \* the file operations of chunk_file that fail in a run

SwapThreads == {"scan", "watch"}

\* a sealed chunk directory: manifest.json and the chunk written for mtime m
Sealed(m) == [manifest |-> m, chunk |-> m]

\* a directory entry that is not there (the mtimes start at 1)
Gone == 0

\* what a failing shutil.rmtree can leave of the directory d
Remains(d) == {d, [d EXCEPT !.manifest = Gone], [d EXCEPT !.chunk = Gone]}

NoReply == [action |-> None]

InitSwap ==
    /\ xclock = 2
    /\ xfile = [exists |-> TRUE, mtime |-> 2]
    /\ xdir \in {NoDir, Sealed(1), Sealed(2)}
    /\ xtmp = [t \in SwapThreads |-> FALSE]
    /\ xpc = [t \in SwapThreads |-> "idle"]
    /\ xmt = [t \in SwapThreads |-> 0]
    /\ xevents = <<>>
    /\ xscanned = FALSE
    /\ xfaults = 0
    /\ xout = [t \in SwapThreads |-> None]
    /\ xbefore = [t \in SwapThreads |-> NoDir]
    /\ xquiet = [t \in SwapThreads |-> TRUE]
    /\ xsealed = (xdir # NoDir)
    /\ xraced = FALSE
    /\ qpc = "idle"
    /\ qman = Gone
    /\ qhad = FALSE
    /\ qresp = NoReply

\* the file system: the file is written again
SwapModify ==
    /\ xclock < 2 + MaxSwapOps
    /\ xfile.exists
    /\ xclock' = xclock + 1
    /\ xfile' = [exists |-> TRUE, mtime |-> xclock + 1]
    /\ xevents' = Append(xevents, "modified")
    /\ UNCHANGED <<xdir, xtmp, xpc, xmt, xscanned, xfaults, xout, xbefore,
                   xquiet, xsealed, xraced, qpc, qman, qhad, qresp>>
    /\ UNCHANGED OutsideSwap

\* the file system: the file is deleted
SwapDelete ==
    /\ xclock < 2 + MaxSwapOps
    /\ xfile.exists
    /\ xclock' = xclock + 1
    /\ xfile' = [exists |-> FALSE, mtime |-> 0]
    /\ xevents' = Append(xevents, "deleted")
    /\ UNCHANGED <<xdir, xtmp, xpc, xmt, xscanned, xfaults, xout, xbefore,
                   xquiet, xsealed, xraced, qpc, qman, qhad, qresp>>
    /\ UNCHANGED OutsideSwap

\* the file system: the file is created again
SwapCreate ==
    /\ xclock < 2 + MaxSwapOps
    /\ ~xfile.exists
    /\ xclock' = xclock + 1
    /\ xfile' = [exists |-> TRUE, mtime |-> xclock + 1]
    /\ xevents' = Append(xevents, "created")
    /\ UNCHANGED <<xdir, xtmp, xpc, xmt, xscanned, xfaults, xout, xbefore,
                   xquiet, xsealed, xraced, qpc, qman, qhad, qresp>>
    /\ UNCHANGED OutsideSwap

\* history: the thread t changes the chunk directory
Touched(t) ==
    xquiet' = [u \in SwapThreads |-> IF u = t THEN xquiet[u] ELSE FALSE]

\* chunk_file, the `except Exception`: the temporary directory is removed
\* and the call returns
swap_failed(t) ==
    /\ xtmp' = [xtmp EXCEPT ![t] = FALSE]
    /\ xpc' = [xpc EXCEPT ![t] = "idle"]
    /\ xout' = [xout EXCEPT ![t] = "failed"]

\* ChunkStore.chunk_file on the thread t up to the manifest written into the
\* temporary directory: no file, or a manifest of the same mtime, returns;
\* a write that fails removes the temporary directory
SwapBegin(t) ==
    /\ xpc[t] = "idle"
    /\ xbefore' = [xbefore EXCEPT ![t] = xdir]
    /\ xquiet' = [xquiet EXCEPT ![t] = TRUE]
    /\ IF ~xfile.exists \/ (xdir # NoDir /\ xdir.manifest = xfile.mtime)
       THEN /\ xout' = [xout EXCEPT ![t] = "returned"]
            /\ UNCHANGED <<xtmp, xpc, xmt, xfaults>>
       ELSE \/ /\ xtmp' = [xtmp EXCEPT ![t] = TRUE]
               /\ xpc' = [xpc EXCEPT ![t] = "swap"]
               /\ xmt' = [xmt EXCEPT ![t] = xfile.mtime]
               /\ xout' = [xout EXCEPT ![t] = None]
               /\ UNCHANGED xfaults
            \/ /\ xfaults < MaxFaults
               /\ xfaults' = xfaults + 1
               /\ swap_failed(t)
               /\ UNCHANGED xmt
    /\ UNCHANGED <<xclock, xfile, xdir, xsealed, xraced, qpc, qman, qhad,
                   qresp>>

\* scan_all reaches the file
ScanBegin ==
    /\ ~xscanned
    /\ xscanned' = TRUE
    /\ SwapBegin("scan")
    /\ UNCHANGED xevents
    /\ UNCHANGED OutsideSwap

\* RLMEventHandler.on_modified / on_created: _rechunk
WatchBegin ==
    /\ xevents # <<>>
    /\ Head(xevents) \in {"modified", "created"}
    /\ xevents' = Tail(xevents)
    /\ SwapBegin("watch")
    /\ UNCHANGED xscanned
    /\ UNCHANGED OutsideSwap

\* chunk_file: `if chunk_dir.exists(): shutil.rmtree(chunk_dir)`
SwapRmtree(t) ==
    /\ xpc[t] = "swap"
    /\ IF xdir = NoDir
       THEN /\ xpc' = [xpc EXCEPT ![t] = "rename"]
            /\ UNCHANGED <<xdir, xtmp, xout, xfaults, xquiet>>
       ELSE \/ /\ xdir' = NoDir
               /\ xpc' = [xpc EXCEPT ![t] = "rename"]
               /\ Touched(t)
               /\ UNCHANGED <<xtmp, xout, xfaults>>
            \/ /\ xfaults < MaxFaults
               /\ xfaults' = xfaults + 1
               /\ \E d \in Remains(xdir) : xdir' = d
               /\ swap_failed(t)
               /\ Touched(t)
    /\ UNCHANGED <<xclock, xfile, xmt, xevents, xscanned, xbefore, xsealed,
                   xraced, qpc, qman, qhad, qresp>>
    /\ UNCHANGED OutsideSwap

\* chunk_file: tmp_dir.rename(chunk_dir); it fails onto a directory another
\* thread has put there, which is not empty
SwapRename(t) ==
    /\ xpc[t] = "rename"
    /\ IF xdir # NoDir
       THEN /\ swap_failed(t)
            /\ UNCHANGED <<xdir, xfaults, xquiet, xsealed>>
       ELSE \/ /\ xdir' = Sealed(xmt[t])
               /\ xtmp' = [xtmp EXCEPT ![t] = FALSE]
               /\ xpc' = [xpc EXCEPT ![t] = "idle"]
               /\ xout' = [xout EXCEPT ![t] = "sealed"]
               /\ xsealed' = TRUE
               /\ Touched(t)
               /\ UNCHANGED xfaults
            \/ /\ xfaults < MaxFaults
               /\ xfaults' = xfaults + 1
               /\ swap_failed(t)
               /\ UNCHANGED <<xdir, xquiet, xsealed>>
    /\ UNCHANGED <<xclock, xfile, xmt, xevents, xscanned, xbefore, xraced,
                   qpc, qman, qhad, qresp>>
    /\ UNCHANGED OutsideSwap

\* RLMEventHandler.on_deleted: _unchunk, ChunkStore.remove_file
SwapRemoveFile ==
    /\ xevents # <<>>
    /\ Head(xevents) = "deleted"
    /\ xpc["watch"] = "idle"
    /\ xevents' = Tail(xevents)
    /\ xdir' = NoDir
    /\ xsealed' = FALSE
    /\ xraced' = (xraced \/ xpc["scan"] # "idle")
    /\ Touched("watch")
    /\ UNCHANGED <<xclock, xfile, xtmp, xpc, xmt, xscanned, xfaults, xout,
                   xbefore, qpc, qman, qhad, qresp>>
    /\ UNCHANGED OutsideSwap

\* the manifest get_manifest returns: Gone for None
swap_manifest == IF xdir = NoDir THEN Gone ELSE xdir.manifest

\* handle_request, action chunks_list
SwapList ==
    /\ qpc = "idle"
    /\ qhad' = xsealed
    /\ qresp' = IF swap_manifest = Gone
                THEN [action |-> "chunks_list", status |-> "pending"]
                ELSE [action |-> "chunks_list", status |-> "ready",
                      manifest |-> swap_manifest]
    /\ UNCHANGED <<xclock, xfile, xdir, xtmp, xpc, xmt, xevents, xscanned,
                   xfaults, xout, xbefore, xquiet, xsealed, xraced, qpc, qman>>
    /\ UNCHANGED OutsideSwap

\* handle_request, action chunks_read, up to get_manifest
SwapReadManifest ==
    /\ qpc = "idle"
    /\ qhad' = xsealed
    /\ IF swap_manifest = Gone
       THEN /\ qresp' = [action |-> "chunks_read", error |-> "No chunks for"]
            /\ UNCHANGED <<qpc, qman>>
       ELSE /\ qpc' = "chunk"
            /\ qman' = swap_manifest
            /\ qresp' = NoReply
    /\ UNCHANGED <<xclock, xfile, xdir, xtmp, xpc, xmt, xevents, xscanned,
                   xfaults, xout, xbefore, xquiet, xsealed, xraced>>
    /\ UNCHANGED OutsideSwap

\* handle_request, action chunks_read: read_chunk and the response
SwapReadChunk ==
    /\ qpc = "chunk"
    /\ qpc' = "idle"
    /\ qman' = Gone
    /\ qhad' = (qhad /\ xsealed)
    /\ qresp' = IF xdir = NoDir \/ xdir.chunk = Gone
                THEN [action |-> "chunks_read", error |-> "Chunk not found"]
                ELSE [action |-> "chunks_read", content |-> xdir.chunk,
                      manifest |-> qman]
    /\ UNCHANGED <<xclock, xfile, xdir, xtmp, xpc, xmt, xevents, xscanned,
                   xfaults, xout, xbefore, xquiet, xsealed, xraced>>
    /\ UNCHANGED OutsideSwap

\* the scan thread and the watcher thread in the chunk store
swap_threads ==
    \/ ScanBegin
    \/ WatchBegin
    \/ \E t \in SwapThreads : SwapRmtree(t) \/ SwapRename(t)
    \/ SwapRemoveFile

NextSwap ==
    \/ SwapModify \/ SwapDelete \/ SwapCreate
    \/ swap_threads
    \/ SwapList \/ SwapReadManifest \/ SwapReadChunk

(***************************************************************************)
(* SpecWatch: RLMEventHandler on the observer thread.  The project tree    *)
(* changes, the observer queues one event per change (a moved directory    *)
(* is followed by the moved events of the files below it) and the handler  *)
(* takes them in order.  A path is its components below the root; none of  *)
(* the root's own components is an ignored name.  Every file is a text     *)
(* file; what a chunk directory holds is the matter of SpecChunk.          *)
(***************************************************************************)
MaxWatchOps == 2     \* the changes of the tree in a run

WatchFiles ==
    {<<"src", "a.py">>, <<"lib", "a.py">>, <<"node_modules", "x.js">>,
     <<".github", "ci.yml">>, <<".git">>}

WatchDirs == {<<"src">>, <<"lib">>}

\* the trees the daemon is started on
WatchTrees ==
    {{<<"src", "a.py">>},
     {<<"node_modules", "x.js">>, <<".git">>},
     {<<"src", "a.py">>, <<"lib", "a.py">>, <<".github", "ci.yml">>}}

\* path p is d or lies below d
Below(p, d) == Len(p) >= Len(d) /\ SubSeq(p, 1, Len(d)) = d

\* FileSystemEvent: event_type, is_directory, src_path, and dest_path (of a
\* moved event)
NoDest == <<>>

FileEvent(kind, p) ==
    [event_type |-> kind, is_directory |-> FALSE, src_path |-> p,
     dest_path |-> NoDest]

MovedEvent(isdir, p, q) ==
    [event_type |-> "moved", is_directory |-> isdir, src_path |-> p,
     dest_path |-> q]

\* ChunkStore.scan_all: the files the walk hands to chunk_file: those with no
\* skipped directory name above them (file names are not looked at)
ScanVisits(p) == \A i \in 1..(Len(p) - 1) : ~ScanSkips(p[i])

\* the chunk directories after scan_all has run over the tree fs
scanned_tree(fs) == {p \in fs : ScanVisits(p)}

\* the daemon has started on a tree and scan_all has run; nothing is cached
InitWatch ==
    /\ hfiles \in WatchTrees
    /\ hevents = <<>>
    /\ hstate = [cache |-> {}, notified |-> {}, chunks |-> scanned_tree(hfiles)]
    /\ hn = 0

\* RLMEventHandler._should_ignore
_should_ignore(path) == \E i \in 1..Len(path) : path[i] \in IGNORED_DIRS

\* SkeletonCache.invalidate as the handler calls it
cache_invalidate(st, path) == [st EXCEPT !.cache = @ \ {path}]

\* RLMEventHandler._notify_repl: the path is handed to
\* repl.invalidate_dependencies
_notify_repl(st, path) == [st EXCEPT !.notified = @ \cup {path}]

\* RLMEventHandler._rechunk: chunk_file returns at once for what is no file
_rechunk(st, path, fs) ==
    IF path \in fs THEN [st EXCEPT !.chunks = @ \cup {path}] ELSE st

\* RLMEventHandler._unchunk: remove_file removes chunks_dir/<path> with all
\* that lies below it
_unchunk(st, path) ==
    [st EXCEPT !.chunks = {c \in @ : ~Below(c, path)}]

on_modified(st, event, fs) ==
    IF event.is_directory \/ _should_ignore(event.src_path) THEN st
    ELSE _rechunk(_notify_repl(cache_invalidate(st, event.src_path),
                               event.src_path),
                  event.src_path, fs)

on_created(st, event, fs) ==
    IF event.is_directory \/ _should_ignore(event.src_path) THEN st
    ELSE _rechunk(st, event.src_path, fs)

on_deleted(st, event, fs) ==
    IF event.is_directory \/ _should_ignore(event.src_path) THEN st
    ELSE _unchunk(_notify_repl(cache_invalidate(st, event.src_path),
                               event.src_path),
                  event.src_path)

on_moved(st, event, fs) ==
    IF _should_ignore(event.src_path) THEN st
    ELSE LET s1 == _unchunk(_notify_repl(cache_invalidate(st, event.src_path),
                                         event.src_path),
                            event.src_path)
             s2 == _notify_repl(cache_invalidate(s1, event.dest_path),
                                event.dest_path)
         IN  IF ~_should_ignore(event.dest_path)
             THEN _rechunk(s2, event.dest_path, fs)
             ELSE s2

\* FileSystemEventHandler.dispatch
dispatch(st, event, fs) ==
    CASE event.event_type = "modified" -> on_modified(st, event, fs)
      [] event.event_type = "created" -> on_created(st, event, fs)
      [] event.event_type = "deleted" -> on_deleted(st, event, fs)
      [] event.event_type = "moved" -> on_moved(st, event, fs)

\* the tree changes and the observer queues what it saw
WatchChange(fs, evs) ==
    /\ hn < MaxWatchOps
    /\ hn' = hn + 1
    /\ hfiles' = fs
    /\ hevents' = hevents \o evs
    /\ UNCHANGED hstate
    /\ UNCHANGED OutsideWatch

FsCreate ==
    \E p \in WatchFiles \ hfiles :
        WatchChange(hfiles \cup {p}, <<FileEvent("created", p)>>)

FsModify ==
    \E p \in hfiles : WatchChange(hfiles, <<FileEvent("modified", p)>>)

FsDelete ==
    \E p \in hfiles : WatchChange(hfiles \ {p}, <<FileEvent("deleted", p)>>)

\* os.rename of a file, onto another file or not
FsMove ==
    \E p \in hfiles : \E q \in WatchFiles \ {p} :
        WatchChange((hfiles \ {p}) \cup {q}, <<MovedEvent(FALSE, p, q)>>)

\* where a path below d is after d was renamed to e
Renamed(p, d, e) == e \o SubSeq(p, Len(d) + 1, Len(p))

\* os.rename of a directory to a name that is free
FsMoveDir ==
    \E d \in WatchDirs : \E e \in WatchDirs \ {d} :
        LET inside == {p \in hfiles : Below(p, d)}
            order == CHOOSE s \in Perms(inside) : TRUE
        IN  /\ inside # {}
            /\ \A p \in hfiles : ~Below(p, e)
            /\ WatchChange((hfiles \ inside) \cup
                               {Renamed(p, d, e) : p \in inside},
                           <<MovedEvent(TRUE, d, e)>> \o
                           [i \in 1..Len(order) |->
                               MovedEvent(FALSE, order[i],
                                          Renamed(order[i], d, e))])

\* the observer thread hands the oldest event to the handler
Dispatch ==
    /\ hevents # <<>>
    /\ hevents' = Tail(hevents)
    /\ hstate' = dispatch(hstate, Head(hevents), hfiles)
    /\ UNCHANGED <<hfiles, hn>>
    /\ UNCHANGED OutsideWatch

\* handle_request "squeeze": a file that exists is cached
WatchSqueeze ==
    /\ \E p \in hfiles \ hstate.cache :
          hstate' = [hstate EXCEPT !.cache = @ \cup {p}]
    /\ UNCHANGED <<hfiles, hevents, hn>>
    /\ UNCHANGED OutsideWatch

NextWatch ==
    \/ FsCreate \/ FsModify \/ FsDelete \/ FsMove \/ FsMoveDir
    \/ Dispatch
    \/ WatchSqueeze

(***************************************************************************)
(* SpecWindows: the two boundary loops as functions of the file and the    *)
(* parameters.  Init draws a file (there or not, of some number of lines)  *)
(* and a size and overlap with 0 <= overlap < size; the actions apply the  *)
(* loop of ChunkStore.chunk_file and the helper chunk_indices to them.     *)
(***************************************************************************)
MaxLines == 12       \* the files have up to MaxLines lines
MaxSize == 4         \* the sizes are 1..MaxSize

\* the line counts tried with the default parameters 200/20
DefaultLineCounts == {0, 1, 199, 200, 201, 380, 381, 500}

WindowArgs ==
    [exists : BOOLEAN, total : 0..MaxLines,
     size : 1..MaxSize, overlap : 0..(MaxSize - 1)]
    \cup [exists : BOOLEAN, total : DefaultLineCounts,
          size : {DefaultChunkSize}, overlap : {DefaultOverlap}]

NoWindows == [by |-> None, list |-> <<>>]

InitWindows ==
    /\ bargs \in {a \in WindowArgs : a.overlap < a.size}
    /\ bres = NoWindows

\* rlm_repl.py, chunk_indices: the while loop from one start
RECURSIVE chunk_indices_from(_, _, _, _, _)
chunk_indices_from(chunks, start, total, size, ov) ==
    IF ~(start <= total) THEN chunks
    ELSE LET end == IF start + size - 1 <= total THEN start + size - 1
                    ELSE total
         IN  IF end = total
             THEN Append(chunks, <<start, end>>)
             ELSE chunk_indices_from(Append(chunks, <<start, end>>),
                                     end + 1 - ov, total, size, ov)

\* a chunk_indices whose windows do not overlap
chunk_indices_no_overlap(f, size, ov) ==
    IF ~f.exists THEN <<>>
    ELSE chunk_indices_from(<<>>, 1, f.total, size, 0)

\* rlm_repl.py, chunk_indices(file_path, size, overlap) for the file f
chunk_indices(f, size, ov) ==
    IF ~f.exists THEN <<>>
    ELSE chunk_indices_from(<<>>, 1, f.total, size, ov)

\* boundaries whose end is not clamped to the last line
RECURSIVE unclamped_from(_, _, _, _)
unclamped_from(start, total_lines, size, ov) ==
    IF start <= total_lines
    THEN <<<<start, start + size - 1>>>> \o
         (IF start + size - 1 >= total_lines THEN <<>>
          ELSE unclamped_from(start + size - ov, total_lines, size, ov))
    ELSE <<>>

chunk_file_boundaries_unclamped(f, size, ov) ==
    IF ~f.exists \/ f.total = 0 THEN <<>>
    ELSE unclamped_from(1, f.total, size, ov)

\* ChunkStore.chunk_file up to its boundaries: no file, no line, no boundary
chunk_file_boundaries(f, size, ov) ==
    IF ~f.exists \/ f.total = 0 THEN <<>>
    ELSE boundaries(f.total, size, ov)

\* the chunk store computes the boundaries of the file
StoreWindows ==
    /\ bres' = [by |-> "chunk_file",
                list |-> chunk_file_boundaries(bargs, bargs.size, bargs.overlap)]
    /\ UNCHANGED bargs
    /\ UNCHANGED OutsideWindows

\* the sandbox helper computes them
HelperWindows ==
    /\ bres' = [by |-> "chunk_indices",
                list |-> chunk_indices(bargs, bargs.size, bargs.overlap)]
    /\ UNCHANGED bargs
    /\ UNCHANGED OutsideWindows

NextWindows == StoreWindows \/ HelperWindows

(***************************************************************************)
(* SpecDeps: the dependency records of the sandbox, on the variables of    *)
(* SpecRepl.  The codes call add_buffer before and after the helpers and   *)
(* write a path in two ways; the watcher calls invalidate_dependencies;    *)
(* and a file is deleted while _check_staleness is looking at it, between  *)
(* os.path.exists and os.path.getmtime.                                    *)
(***************************************************************************)
DepCodes ==
    {Code(<<Call("peek", "a.py")>>, "d", "str", None, "no"),
     Code(<<Call("peek", "./a.py")>>, "e", "str", None, "no"),
     Code(<<>>, "e", "str", None, "no"),
     Code(<<Call("peek", "b.py")>>, None, None, "k", "no"),
     Code(<<Call("peek", "a.py")>>, None, None, "j", "no"),
     Code(<<Call("grep", ".")>>, None, None, "k", "no"),
     Code(<<>>, None, None, "j", "no"),
     CodeThen(<<>>, None, None, "k", <<Call("peek", "a.py")>>, "no")}

\* the dependency records of one map, one by one: <<kind, name, key>>
RecordsIn(kind, records) ==
    {r \in {kind} \X (DOMAIN records) \X ReplKeys :
        r[3] \in DOMAIN records[r[2]]}

\* the dependency records of the namespace
RecordsOf(ns) ==
    RecordsIn("variables", ns.deps.variables)
    \cup RecordsIn("buffers", ns.deps.buffers)

\* the mtime a record holds
RecordedMtime(ns, r) == ns.deps[r[1]][r[2]][r[3]]

\* RLMRepl._check_staleness, the body of its loops for one record: None, or
\* the reason it appends
stale_reason(ns, r, fs) ==
    IF ~fs[FileOf(r[3])].exists THEN "deleted"
    ELSE IF fs[FileOf(r[3])].mtime # RecordedMtime(ns, r) THEN "modified"
    ELSE None

\* RLMRepl._check_staleness while the file p is deleted: the record `racing`
\* is the one whose os.path.exists saw the file and whose os.path.getmtime
\* did not; the records `early` were looked at before that, the others after
_check_staleness_during_delete(ns, fs, p, racing, early) ==
    LET after == [fs EXCEPT ![p] = [exists |-> FALSE, mtime |-> 0]]
        reason(r) == IF r = racing THEN "inaccessible"
                     ELSE IF r \in early THEN stale_reason(ns, r, fs)
                     ELSE stale_reason(ns, r, after)
        entries(kind) ==
            {<<r[2], r[3], reason(r)>> :
                r \in {x \in RecordsOf(ns) : x[1] = kind /\ reason(x) # None}}
    IN  [variables |-> entries("variables"), buffers |-> entries("buffers"),
         none |-> entries("variables") = {} /\ entries("buffers") = {}]

\* RLMRepl.status while the file p is deleted under _check_staleness
ReplStatusDuringDelete ==
    /\ rn < MaxReplOps
    /\ rclock < 1 + MaxReplFsOps
    /\ \E p \in ReplPaths :
          /\ rfiles[p].exists
          /\ \E racing \in {r \in RecordsOf(namespace) : FileOf(r[3]) = p} :
             \E early \in SUBSET {r \in RecordsOf(namespace) \ {racing} :
                                    racing[1] = "variables" => r[1] = "variables"} :
                /\ rfiles' = [rfiles EXCEPT ![p] = [exists |-> FALSE, mtime |-> 0]]
                /\ rresp' =
                     [op |-> "status", n |-> rn + 1, code |-> None,
                      body |-> [status(namespace, rfiles) EXCEPT
                                  !.staleness =
                                     _check_staleness_during_delete(
                                         namespace, rfiles, p, racing, early)]]
    /\ rn' = rn + 1
    /\ rclock' = rclock + 1
    /\ UNCHANGED <<namespace, state_pkl, sys_stdout, rexecs, rread>>
    /\ UNCHANGED OutsideRepl

\* invalidate_dependencies that reports no name
invalidate_dependencies_nothing(ns, rel_path) == {}

\* RLMRepl.invalidate_dependencies: the names whose record holds the key
\* rel_path, as <<"var", name>> and <<"buffer", key>>
invalidate_dependencies(ns, rel_path) ==
    {<<"var", n>> : n \in {x \in DOMAIN ns.deps.variables :
                             rel_path \in DOMAIN ns.deps.variables[x]}}
    \cup
    {<<"buffer", k>> : k \in {x \in DOMAIN ns.deps.buffers :
                                rel_path \in DOMAIN ns.deps.buffers[x]}}

\* the watcher hands the path of a changed file to invalidate_dependencies:
\* Path.resolve and os.path.relpath give the path of the file below the root
ReplInvalidate ==
    /\ rn < MaxReplOps
    /\ rn' = rn + 1
    /\ \E p \in ReplPaths :
          rresp' = [op |-> "invalidate", n |-> rn + 1, code |-> None,
                    body |-> [path |-> p,
                              affected |-> invalidate_dependencies(namespace, p)]]
    /\ UNCHANGED <<rclock, rfiles, namespace, state_pkl, sys_stdout, rexecs,
                   rread>>
    /\ UNCHANGED OutsideRepl

NextDeps ==
    \/ \E p \in ReplPaths : ReplModify(p)
    \/ \E p \in ReplPaths : ReplDelete(p)
    \/ \E code \in DepCodes : ReplExec(code)
    \/ ReplStatus
    \/ ReplStatusDuringDelete
    \/ ReplInvalidate

(***************************************************************************)
(* SpecStats: SessionStats on the threads of the connections.  A thread    *)
(* calls record or to_dict and waits for self._lock; inside the lock every *)
(* `+=` of record is two steps, the read of the counter and the write of   *)
(* the sum, and to_dict reads the counters in one step.                    *)
(***************************************************************************)
MaxStatsCalls == 3   \* the calls of record and to_dict of a run

StatsThreads == {"t1", "t2"}

\* the calls the handlers make: record(action, served_bytes, avoided_bytes)
\* with a length and a difference cut at zero, and to_dict()
StatsCalls ==
    { [action |-> "squeeze", served_bytes |-> 8, avoided_bytes |-> 4],
      [action |-> "tree", served_bytes |-> 4, avoided_bytes |-> 0],
      [action |-> "to_dict", served_bytes |-> 0, avoided_bytes |-> 0] }

\* a thread outside SessionStats
Outside ==
    [at |-> "idle", action |-> None, served_bytes |-> 0, avoided_bytes |-> 0,
     tmp |-> 0, seen |-> NoStats, calls |-> 0]

InitStats ==
    /\ stats = NoStats
    /\ lock = None
    /\ threads = [t \in StatsThreads |-> Outside]

\* the calls made so far
StatsCallsMade(th) ==
    LET RECURSIVE Sum(_)
        Sum(S) == IF S = {} THEN 0
                  ELSE LET t == CHOOSE u \in S : TRUE
                       IN  th[t].calls + Sum(S \ {t})
    IN  Sum(DOMAIN th)

\* a `with self._lock` that lets every thread in
may_enter_unlocked(holder) == TRUE

\* `with self._lock`: the lock is free
may_enter(holder) == holder = None

\* the entry of per_action for the action
EntryOf(st, action) ==
    CHOOSE i \in DOMAIN st.per_action : st.per_action[i].action = action

\* per_action[action][field] = value
SetEntry(st, action, field, value) ==
    [st EXCEPT !.per_action[EntryOf(st, action)] =
        [@ EXCEPT ![field] = value]]

\* SessionStats.record inside the lock, statement by statement: the
\* statistics and the thread after the step of the thread th
record_step(st, th) ==
    LET to(at, tmp) == [th EXCEPT !.at = at, !.tmp = tmp]
        entry == st.per_action[EntryOf(st, th.action)]
    IN  CASE th.at = "49r" ->
               [stats |-> st, th |-> to("49w", st.tool_calls)]
          [] th.at = "49w" ->
               [stats |-> [st EXCEPT !.tool_calls = th.tmp + 1],
                th |-> to("50r", 0)]
          [] th.at = "50r" ->
               [stats |-> st, th |-> to("50w", st.bytes_served)]
          [] th.at = "50w" ->
               [stats |-> [st EXCEPT !.bytes_served = th.tmp + th.served_bytes],
                th |-> to("51r", 0)]
          [] th.at = "51r" ->
               [stats |-> st, th |-> to("51w", st.bytes_avoided)]
          [] th.at = "51w" ->
               [stats |->
                  [st EXCEPT !.bytes_avoided = th.tmp + th.avoided_bytes],
                th |-> to("52", 0)]
          [] th.at = "52" ->
               [stats |->
                  IF \E i \in DOMAIN st.per_action :
                        st.per_action[i].action = th.action
                  THEN st
                  ELSE [st EXCEPT !.per_action =
                          Append(@, [action |-> th.action, calls |-> 0,
                                     bytes_served |-> 0,
                                     bytes_avoided |-> 0])],
                th |-> to("54r", 0)]
          [] th.at = "54r" ->
               [stats |-> st, th |-> to("54w", entry.calls)]
          [] th.at = "54w" ->
               [stats |-> SetEntry(st, th.action, "calls", th.tmp + 1),
                th |-> to("55r", 0)]
          [] th.at = "55r" ->
               [stats |-> st, th |-> to("55w", entry.bytes_served)]
          [] th.at = "55w" ->
               [stats |-> SetEntry(st, th.action, "bytes_served",
                                   th.tmp + th.served_bytes),
                th |-> to("56r", 0)]
          [] th.at = "56r" ->
               [stats |-> st, th |-> to("56w", entry.bytes_avoided)]
          [] th.at = "56w" ->
               [stats |-> SetEntry(st, th.action, "bytes_avoided",
                                   th.tmp + th.avoided_bytes),
                th |-> to("release", 0)]

\* a handler calls stats.record or stats.to_dict and comes to the lock
StatsCall(t, c) ==
    /\ threads[t].at = "idle"
    /\ StatsCallsMade(threads) < MaxStatsCalls
    /\ threads' = [threads EXCEPT ![t] =
          [@ EXCEPT !.at = "lock", !.action = c.action,
                    !.served_bytes = c.served_bytes,
                    !.avoided_bytes = c.avoided_bytes,
                    !.calls = @ + 1]]
    /\ UNCHANGED <<stats, lock>>
    /\ UNCHANGED OutsideStats

\* `with self._lock:` of record and of to_dict
StatsAcquire(t) ==
    /\ threads[t].at = "lock"
    /\ may_enter(lock)
    /\ lock' = t
    /\ threads' = [threads EXCEPT ![t].at =
          IF threads[t].action = "to_dict" THEN "59" ELSE "49r"]
    /\ UNCHANGED stats
    /\ UNCHANGED OutsideStats

\* a statement of record
StatsRecord(t) ==
    /\ threads[t].at \in {"49r", "49w", "50r", "50w", "51r", "51w", "52",
                          "54r", "54w", "55r", "55w", "56r", "56w"}
    /\ stats' = record_step(stats, threads[t]).stats
    /\ threads' = [threads EXCEPT ![t] = record_step(stats, threads[t]).th]
    /\ UNCHANGED lock
    /\ UNCHANGED OutsideStats

\* to_dict reads the counters and per_action
StatsToDict(t) ==
    /\ threads[t].at = "59"
    /\ threads' = [threads EXCEPT ![t] =
          [@ EXCEPT !.at = "release", !.seen = stats]]
    /\ UNCHANGED <<stats, lock>>
    /\ UNCHANGED OutsideStats

\* the end of the `with` block, and the return
StatsRelease(t) ==
    /\ threads[t].at = "release"
    /\ lock' = None
    /\ threads' = [threads EXCEPT ![t].at = "idle"]
    /\ UNCHANGED stats
    /\ UNCHANGED OutsideStats

NextStats ==
    \/ \E t \in StatsThreads, c \in StatsCalls : StatsCall(t, c)
    \/ \E t \in StatsThreads : StatsAcquire(t)
    \/ \E t \in StatsThreads : StatsRecord(t)
    \/ \E t \in StatsThreads : StatsToDict(t)
    \/ \E t \in StatsThreads : StatsRelease(t)

(***************************************************************************)
(* SpecHandlers: run_server with the threads of the accepted connections.  *)
(* The main thread and the watchdog are those of SpecRun; accept starts a  *)
(* daemon thread for the connection, which answers after any time; when    *)
(* run_server has returned, main returns and the interpreter ends with the *)
(* daemon threads that are still running.                                  *)
(***************************************************************************)
MaxAccepts == 2      \* the connections accepted in a run

\* run_server: accept returns a connection; update_activity, and
\* threading.Thread(target=handle_client, ..., daemon=True).start()
AcceptAndStart ==
    /\ mpc = "accept"
    /\ Len(threads) < MaxAccepts
    /\ idle_now' = 0
    /\ accepted' = TRUE
    /\ mpc' = "loop"
    /\ threads' = Append(threads, "handling")
    /\ UNCHANGED <<port, idle_timeout, busy, rlm_is_dir, try_port, bound_port,
                   sockname, port_file, observer, server, shutdown_event, ipc,
                   wake_in, idle_secs, exitpath>>
    /\ UNCHANGED <<varsTrunc, varsCache, varsChunk, varsDispatch, varsScan,
                   varsRepl, varsServe, varsSwap, varsWatch, varsWindows, lock>>

\* handle_client: the response (or ALIVE) is sent and the connection closed;
\* the thread runs as long as the process does
HandlerAnswers(i) ==
    /\ mpc # "ended"
    /\ i \in DOMAIN threads
    /\ threads[i] = "handling"
    /\ threads' = [threads EXCEPT ![i] = "answered"]
    /\ UNCHANGED <<varsRun, lock>>
    /\ UNCHANGED <<varsTrunc, varsCache, varsChunk, varsDispatch, varsScan,
                   varsRepl, varsServe, varsSwap, varsWatch, varsWindows>>

\* main returns after run_server: the interpreter joins no daemon thread,
\* the handlers still running end without an answer
ProcessEnds ==
    /\ mpc = "returned"
    /\ mpc' = "ended"
    /\ threads' = [i \in DOMAIN threads |->
                     IF threads[i] = "handling" THEN "killed" ELSE threads[i]]
    /\ UNCHANGED <<port, idle_timeout, busy, rlm_is_dir, try_port, bound_port,
                   sockname, port_file, observer, server, idle_now,
                   shutdown_event, ipc, wake_in, idle_secs, accepted,
                   exitpath, lock>>
    /\ UNCHANGED <<varsTrunc, varsCache, varsChunk, varsDispatch, varsScan,
                   varsRepl, varsServe, varsSwap, varsWatch, varsWindows>>

NextHandlers ==
    \/ run_server
    \/ AcceptAndStart
    \/ idle_watchdog
    \/ \E d \in TickSteps : Tick(d)
    \/ \E i \in 1..MaxAccepts : HandlerAnswers(i)
    \/ ProcessEnds

(***************************************************************************)
(* SpecNotify: the watcher's thread beside a worker thread in RLMRepl.exec. *)
(* exec holds the sandbox's lock from its first statement to its return,   *)
(* the code handed to it running inside; the handler takes the observer's  *)
(* events one after another: cache.invalidate, _notify_repl (which calls   *)
(* invalidate_dependencies and so takes the same lock), then _rechunk or   *)
(* _unchunk.                                                               *)
(***************************************************************************)
MaxNotifyEvents == 3 \* the events the observer queues in a run

MaxNotifyExecs == 2  \* the repl_exec requests of a run

OutsideThreads ==
    <<varsTrunc, varsCache, varsChunk, varsDispatch, varsScan, varsRepl,
      varsServe, varsRun, varsSwap, varsWatch, varsWindows>>

InitNotify ==
    /\ lock = None
    /\ threads = [worker |-> [at |-> "idle", n |-> 0],
                  watcher |-> [at |-> "idle", event |-> None,
                               pending |-> <<>>, n |-> 0]]

\* RLMRepl.exec: `with self._lock:`, and the code starts to run
NotifyExecBegin ==
    /\ threads.worker.at = "idle"
    /\ threads.worker.n < MaxNotifyExecs
    /\ may_enter(lock)
    /\ lock' = "worker"
    /\ threads' = [threads EXCEPT !.worker.at = "exec", !.worker.n = @ + 1]
    /\ UNCHANGED OutsideThreads

\* RLMRepl.exec: the code has ended, the result is built, the lock released
NotifyExecEnd ==
    /\ threads.worker.at = "exec"
    /\ lock' = None
    /\ threads' = [threads EXCEPT !.worker.at = "idle"]
    /\ UNCHANGED OutsideThreads

\* the observer queues a modified or deleted event of a source file
NotifyEvent(kind) ==
    /\ threads.watcher.n < MaxNotifyEvents
    /\ threads' = [threads EXCEPT !.watcher.pending = Append(@, kind),
                                  !.watcher.n = @ + 1]
    /\ UNCHANGED lock
    /\ UNCHANGED OutsideThreads

\* on_modified / on_deleted: the event is taken and cache.invalidate called
NotifyCacheInvalidate ==
    /\ threads.watcher.at = "idle"
    /\ threads.watcher.pending # <<>>
    /\ threads' = [threads EXCEPT !.watcher.at = "notify",
                                  !.watcher.event = Head(@),
                                  !.watcher.pending = Tail(@)]
    /\ UNCHANGED lock
    /\ UNCHANGED OutsideThreads

\* _notify_repl: invalidate_dependencies enters `with self._lock:`
NotifyEnter ==
    /\ threads.watcher.at = "notify"
    /\ may_enter(lock)
    /\ lock' = "watcher"
    /\ threads' = [threads EXCEPT !.watcher.at = "inside"]
    /\ UNCHANGED OutsideThreads

\* invalidate_dependencies returns the affected names
NotifyLeave ==
    /\ threads.watcher.at = "inside"
    /\ lock' = None
    /\ threads' = [threads EXCEPT !.watcher.at = "chunk"]
    /\ UNCHANGED OutsideThreads

\* _rechunk for a modified event, _unchunk for a deleted one; the handler
\* returns
NotifyChunk ==
    /\ threads.watcher.at = "chunk"
    /\ threads' = [threads EXCEPT !.watcher.at = "idle",
                                  !.watcher.event = None]
    /\ UNCHANGED lock
    /\ UNCHANGED OutsideThreads

NextNotify ==
    \/ NotifyExecBegin
    \/ NotifyExecEnd
    \/ \E kind \in {"modified", "deleted"} : NotifyEvent(kind)
    \/ NotifyCacheInvalidate
    \/ NotifyEnter
    \/ NotifyLeave
    \/ NotifyChunk

(***************************************************************************)
(* The specifications.                                                     *)
(***************************************************************************)
\* the daemon's default chunk store, before any call
NoChunk == ChunkRest(DefaultChunkSize, DefaultOverlap)

\* truncate() and exec() are called, the daemon is at rest
\* the specifications that follow the first four are at rest
NoScan ==
    /\ sclock = 1
    /\ sfiles = [p \in ScanPaths |-> ScanMissing]
    /\ sdirs = [p \in ScanPaths |-> NoDir]
    /\ sevents = <<>>
    /\ stouched = {}
    /\ spc = "done"
    /\ swalkdirs = <<>>
    /\ swalkfiles = <<>>
    /\ scur = Absent
    /\ lpc = "idle"
    /\ lpath = NoPath
    /\ sresp = Absent

NoRepl ==
    /\ rclock = 1
    /\ rfiles = [p \in ReplPaths |-> [exists |-> TRUE, mtime |-> 1]]
    /\ namespace = EmptyNamespace
    /\ state_pkl = Absent
    /\ sys_stdout = "stdout"
    /\ rn = 0
    /\ rresp = Absent
    /\ rexecs = 0
    /\ rread = << >>

\* no daemon is serving
NoServe ==
    /\ wired = [repl |-> FALSE, chunk_store |-> FALSE]
    /\ cpc = "idle"
    /\ cn = 0
    /\ cleft = <<>>
    /\ cshut = FALSE
    /\ cdata = <<>>
    /\ csent = <<>>
    /\ chow = None
    /\ stats = NoStats

\* no server has been started
NoRun ==
    /\ port = DEFAULT_PORT
    /\ idle_timeout = 0
    /\ busy = {}
    /\ rlm_is_dir = FALSE
    /\ mpc = "returned"
    /\ try_port = DEFAULT_PORT
    /\ bound_port = {}
    /\ sockname = {}
    /\ port_file = Absent
    /\ observer = "stopped"
    /\ server = "closed"
    /\ idle_now = 0
    /\ shutdown_event = FALSE
    /\ ipc = "none"
    /\ wake_in = 0
    /\ idle_secs = 0
    /\ accepted = FALSE
    /\ exitpath = None

\* no chunk directory is being swapped
NoSwap ==
    /\ xclock = 2
    /\ xfile = [exists |-> TRUE, mtime |-> 2]
    /\ xdir = NoDir
    /\ xtmp = [t \in SwapThreads |-> FALSE]
    /\ xpc = [t \in SwapThreads |-> "idle"]
    /\ xmt = [t \in SwapThreads |-> 0]
    /\ xevents = <<>>
    /\ xscanned = TRUE
    /\ xfaults = 0
    /\ xout = [t \in SwapThreads |-> None]
    /\ xbefore = [t \in SwapThreads |-> NoDir]
    /\ xquiet = [t \in SwapThreads |-> TRUE]
    /\ xsealed = FALSE
    /\ xraced = FALSE
    /\ qpc = "idle"
    /\ qman = Gone
    /\ qhad = FALSE
    /\ qresp = NoReply

\* no event handler runs
NoWatch ==
    /\ hfiles = {}
    /\ hevents = <<>>
    /\ hstate = [cache |-> {}, notified |-> {}, chunks |-> {}]
    /\ hn = 0

\* no boundary is computed
NoBounds ==
    /\ bargs = [exists |-> FALSE, total |-> 0, size |-> 1, overlap |-> 0]
    /\ bres = NoWindows

\* no thread is modelled on its own
NoThreads ==
    /\ lock = None
    /\ threads = << >>

NoThird == NoRun /\ NoSwap /\ NoWatch /\ NoBounds /\ NoThreads

NoLater == NoScan /\ NoRepl /\ NoServe /\ NoThird

InitSpecTrunc == InitTrunc /\ InitCache /\ NoChunk /\ NoDispatch /\ NoLater

SpecTrunc == InitSpecTrunc /\ [][NextTrunc]_vars

\* no call of truncate() or exec() in the other specifications
NoTrunc ==
    /\ text = <<>>
    /\ max_chars = MAX_RESPONSE_CHARS
    /\ once = None
    /\ twice = None
    /\ output = None

InitSpecCache == NoTrunc /\ InitCache /\ NoChunk /\ NoDispatch /\ NoLater

SpecCache == InitSpecCache /\ [][NextCache]_vars

\* the chunk store: no squeeze request is in progress
InitSpecChunk == NoTrunc /\ InitCache /\ InitChunk /\ NoDispatch /\ NoLater

SpecChunk == InitSpecChunk /\ [][NextChunk]_vars

\* the dispatcher over the fixed tree: nothing is cached, no file chunked
InitSpecDispatch == NoTrunc /\ InitCache /\ NoChunk /\ NoDispatch /\ NoLater

SpecDispatch == InitSpecDispatch /\ [][NextDispatch]_vars

\* the first four groups at rest
NoEarlier == NoTrunc /\ InitCache /\ NoChunk /\ NoDispatch

\* the scan beside the watcher and the chunks_list requests
InitSpecScan == NoEarlier /\ InitScan /\ NoRepl /\ NoServe /\ NoThird

SpecScan == InitSpecScan /\ [][NextScan]_vars

\* the scan thread is scheduled whenever it can take a step: it is a thread
\* of its own (run_server) that blocks on nothing but the disk
FairSpecScan == SpecScan /\ WF_vars(scan_all)

\* the sandbox and the project files
InitSpecRepl == NoEarlier /\ NoScan /\ InitRepl /\ NoServe /\ NoThird

SpecRepl == InitSpecRepl /\ [][NextRepl]_vars

\* the sandbox and the project files, the calls being those of NextDeps
SpecDeps == InitSpecRepl /\ [][NextDeps]_vars

\* the daemon serving one connection after another
InitSpecServe == NoEarlier /\ NoScan /\ InitRepl /\ InitServe /\ NoThird

SpecServe == InitSpecServe /\ [][NextServe]_vars

\* the thread of a connection is scheduled whenever it can take a step:
\* recv returns bytes that have arrived, returns b"" once the peer has
\* closed, and raises socket.timeout after 5 seconds of silence
FairSpecServe == SpecServe /\ WF_vars(handle_client)

\* the server is started; nothing else runs
InitSpecRun ==
    /\ NoEarlier /\ NoScan /\ NoRepl /\ NoServe
    /\ InitRun /\ NoSwap /\ NoWatch /\ NoBounds /\ NoThreads

SpecRun == InitSpecRun /\ [][NextRun]_vars

\* the main thread and the watchdog thread are scheduled again and again,
\* and time does not stop while the server waits in accept
FairSpecRun ==
    /\ SpecRun
    /\ WF_vars(run_server)
    /\ WF_vars(idle_watchdog)
    /\ WF_vars(\E d \in TickSteps : Tick(d))

\* the chunk directory of one file is swapped; nothing else runs
InitSpecSwap ==
    /\ NoEarlier /\ NoScan /\ NoRepl /\ NoServe
    /\ NoRun /\ InitSwap /\ NoWatch /\ NoBounds /\ NoThreads

SpecSwap == InitSpecSwap /\ [][NextSwap]_vars

\* the event handler over a changing tree; nothing else runs
InitSpecWatch ==
    /\ NoEarlier /\ NoScan /\ NoRepl /\ NoServe
    /\ NoRun /\ NoSwap /\ InitWatch /\ NoBounds /\ NoThreads

SpecWatch == InitSpecWatch /\ [][NextWatch]_vars

\* the boundary loops applied to a file; nothing else runs
InitSpecWindows ==
    /\ NoEarlier /\ NoScan /\ NoRepl /\ NoServe
    /\ NoRun /\ NoSwap /\ NoWatch /\ InitWindows /\ NoThreads

SpecWindows == InitSpecWindows /\ [][NextWindows]_vars

\* the session statistics under the calls of several threads; nothing else
\* runs
InitSpecStats ==
    /\ NoEarlier /\ NoScan /\ NoRepl
    /\ wired = [repl |-> FALSE, chunk_store |-> FALSE]
    /\ cpc = "idle" /\ cn = 0 /\ cleft = <<>> /\ cshut = FALSE
    /\ cdata = <<>> /\ csent = <<>> /\ chow = None
    /\ NoRun /\ NoSwap /\ NoWatch /\ NoBounds
    /\ InitStats

SpecStats == InitSpecStats /\ [][NextStats]_vars

\* run_server and the threads of the connections it accepts
SpecHandlers == InitSpecRun /\ [][NextHandlers]_vars

\* the watcher's handler beside a worker in exec; nothing else runs
InitSpecNotify ==
    /\ NoEarlier /\ NoScan /\ NoRepl /\ NoServe
    /\ NoRun /\ NoSwap /\ NoWatch /\ NoBounds
    /\ InitNotify

SpecNotify == InitSpecNotify /\ [][NextNotify]_vars

\* the number of characters exec drops from a captured output
Dropped(captured) == TLen(captured) - MAX_OUTPUT_CHARS

\* C3: the output of exec is the captured output if it has at most 8000
\* characters, and otherwise its first 8000 characters followed by
\* "\n... (truncated, n more chars, ~t tokens)" with n = L - 8000 and
\* t = round(n / 4).
C3_ExecTruncationRounds ==
    output # None =>
        output = IF TLen(text) <= MAX_OUTPUT_CHARS THEN text
                 ELSE TCat(TTake(text, MAX_OUTPUT_CHARS),
                           Annotation(Dropped(text), PyRound4(Dropped(text))))

\* the length of the annotation truncate() appends to t (of the annotation of
\* zero dropped characters when t is under the cap)
annotation_length(t, cap) ==
    LET remaining == IF TLen(t) > cap THEN TLen(t) - cap ELSE 0
    IN  TLen(Annotation(remaining, PyRound4(remaining)))

\* C4 as stated: truncate(truncate(t)) = truncate(t) for every text t shorter
\* than cap + annotation_length.
C4_TruncateIdempotentBelowAnnotation ==
    (twice # None /\ TLen(text) < max_chars + annotation_length(text, max_chars))
        => twice = once

\* C4 as amended: truncate(truncate(t)) = truncate(t) = t for every text t of
\* at most cap characters; a longer t gives a result longer than the cap, which
\* the second call truncates again, and the two agree exactly when the number
\* of characters dropped from t equals the length of the annotation.
C4_TruncateIdempotentUnderCap ==
    twice # None =>
        /\ TLen(text) <= max_chars => (once = text /\ twice = once)
        /\ TLen(text) > max_chars =>
              /\ TLen(once) > max_chars
              /\ TTake(twice, max_chars) = TTake(text, max_chars)
              /\ (twice = once) <=>
                    (TLen(text) - max_chars = TLen(once) - max_chars)

\* C4 witness: a text of exactly cap characters went through both calls
C4_Witness ==
    /\ twice # None
    /\ max_chars = MAX_RESPONSE_CHARS
    /\ TLen(text) = max_chars
    /\ twice = text


(***************************************************************************)
(* SkeletonCache: C5, C6, C7 (SpecCache)                                   *)
(***************************************************************************)
\* the step of worker t is the first locked block of a get of a file that
\* exists: the entry with the file's current mtime is returned as it is, with
\* the cache untouched; otherwise the skeleton is computed for the mtime read
C5_Lookup(t) ==
    (wpc[t] = "get" /\ wpc'[t] # "get" /\ files[wpath[t]].exists) =>
        IF wpath[t] \in DOMAIN cache /\ mtimes[wpath[t]] = files[wpath[t]].mtime
        THEN /\ wpc'[t] = "reply"
             /\ wskel'[t] = cache[wpath[t]]
             /\ cache' = cache
             /\ mtimes' = mtimes
        ELSE /\ wpc'[t] = "exists"
             /\ wmtime'[t] = files[wpath[t]].mtime

\* the step of worker t is the second locked block of a get: the entry of the
\* path becomes (skeleton computed in this call, mtime read in this call), the
\* other entries stay, and the skeleton is returned
C5_Replace(t) ==
    (wpc[t] = "store" /\ wpc'[t] = "reply") =>
        /\ DOMAIN cache' = DOMAIN cache \cup {wpath[t]}
        /\ DOMAIN mtimes' = DOMAIN cache'
        /\ cache'[wpath[t]] = wskel[t]
        /\ mtimes'[wpath[t]] = wmtime[t]
        /\ \A q \in DOMAIN cache \ {wpath[t]} :
              cache'[q] = cache[q] /\ mtimes'[q] = mtimes[q]
        /\ wskel'[t] = wskel[t]

\* after the step, a get of worker t during which the file was not touched has
\* returned the skeleton of the file as it is (None for no file): two such gets
\* of an unmodified file return the same skeleton
C5_SameSkeleton(t) ==
    (wpc'[t] = "reply" /\ wquiet'[t]) =>
        wskel'[t] = IF files'[wpath'[t]].exists
                    THEN skeleton_of(wpath'[t], files'[wpath'[t]].content)
                    ELSE Absent

\* C5: SkeletonCache.get(p) of an existing file returns the stored skeleton
\* without recomputing exactly when an entry for p exists whose stored mtime
\* equals the file's current mtime (the cache, and so its size, is unchanged);
\* otherwise it recomputes and replaces the entry with (skeleton, mtime read in
\* this call); two gets of p with no modification of the file return the
\* identical skeleton.
C5_GetHitOrRecompute ==
    [][\A t \in Workers : C5_Lookup(t) /\ C5_Replace(t) /\ C5_SameSkeleton(t)]_vars

\* C5 witness: a get of an unmodified file was answered from the cache
C5_Witness ==
    \E t \in Workers :
        /\ wpc[t] = "reply"
        /\ whow[t] = "hit"
        /\ wquiet[t]
        /\ wpath[t] \in DOMAIN cache
        /\ wskel[t] = skeleton_of(wpath[t], files[wpath[t]].content)

\* s is a skeleton (not an error text of the squeezer)
IsSkeleton(s) == s.kind \in {"skeleton", "preview"}

\* s is the skeleton of a content file p had while its mtime was m
ValidFor(p, s, m) ==
    \E h \in held : h[1] = p /\ h[2] = m /\ s = skeleton_of(p, h[3])

\* C6: in every interleaving of gets, file modifications and invalidations,
\* every cache entry (s, m) and every skeleton a get returns is the skeleton
\* of the content the file had while its mtime was m, the mtime it is stored
\* under.
C6_NoStaleBinding ==
    /\ \A p \in DOMAIN cache :
          IsSkeleton(cache[p]) => ValidFor(p, cache[p], mtimes[p])
    /\ \A t \in Workers :
          (wpc[t] = "reply" /\ IsSkeleton(wskel[t])) =>
              ValidFor(wpath[t], wskel[t], wmtime[t])

\* C7: get(p) returns None whenever file p is missing, also when p is deleted
\* while the get is in progress; no entry is stored for a missing file, and
\* the squeeze action answers the error "File not found", never a skeleton.
C7_MissingFileIsAbsent ==
    /\ \A t \in Workers :
          (wpc[t] = "reply" /\ ~files[wpath[t]].exists) =>
              /\ wskel[t] = Absent
              /\ Response(t).kind = "error"
              /\ Response(t).body = "File not found"
    /\ \A p \in DOMAIN cache : cache[p].kind # "text"

(***************************************************************************)
(* ChunkStore: C8, C9, C10                                                 *)
(***************************************************************************)
\* the boundary rule in closed form: window i starts at 1 + i * (size - ov)
\* and has size lines clamped to total
window_start(i, size, ov) == 1 + i * (size - ov)
window_end(i, total, size, ov) == Min(window_start(i, size, ov) + size - 1, total)

\* the number of windows: the first window whose end is the last line
window_count(total, size, ov) ==
    CHOOSE k \in 1..total :
        /\ window_end(k - 1, total, size, ov) = total
        /\ \A j \in 0..(k - 2) : window_end(j, total, size, ov) < total

\* chunk file i of the directory d holds window i of the file it was cut from
IsWindow(d, i) ==
    LET m == d.manifest
        ch == d.chunks[i + 1]
        s == window_start(i, m.chunk_size, m.overlap)
        e == window_end(i, m.total_lines, m.chunk_size, m.overlap)
    IN  /\ ch.header.s = s /\ ch.header.e = e
        /\ ch.lines.from = s /\ ch.lines.to = e
        /\ ch.lines.of.lines = m.total_lines

\* C8: in every sealed chunk directory the chunk files chunk_000 ..
\* chunk_(k-1) are exactly the windows of the boundary rule applied to the
\* manifest's total_lines, chunk_size and overlap, and the manifest's
\* total_chunks is k; 500 lines with 200/20 give (1,200), (181,380),
\* (361,500), and a file of exactly chunk_size lines gives one chunk.
C8_ChunksAreTheWindows ==
    \A p \in Paths :
        dirs[p] # NoDir =>
            LET d == dirs[p]
                m == d.manifest
                k == window_count(m.total_lines, m.chunk_size, m.overlap)
            IN  /\ m.total_lines >= 1
                /\ Len(d.chunks) = k
                /\ m.total_chunks = k
                /\ \A i \in 0..(k - 1) : IsWindow(d, i)
                /\ (m.total_lines = m.chunk_size => k = 1)
                /\ (m.total_lines = 500 /\ m.chunk_size = 200 /\ m.overlap = 20
                    => /\ k = 3
                       /\ d.chunks[1].header = [rel |-> p, s |-> 1, e |-> 200]
                       /\ d.chunks[2].header = [rel |-> p, s |-> 181, e |-> 380]
                       /\ d.chunks[3].header = [rel |-> p, s |-> 361, e |-> 500])

\* a 500-line file cut with 200/20 is sealed, and so is a three-window
\* directory of the small store
C8_Witness ==
    \E p \in Paths :
        /\ dirs[p] # NoDir
        /\ dirs[p].manifest.total_lines = (5 * chunk_size) \div 2
        /\ dirs[p].manifest.total_chunks = 3
        /\ chunk_size = DefaultChunkSize

\* C9: for a sealed chunk directory and 0 <= i < total_chunks,
\* chunks_read(path, i) returns the content of chunk file i, the manifest's
\* total_chunks and a lines value that equals the range of that chunk's
\* header line; an index with no chunk file yields "Chunk i not found" and
\* a file without manifest yields "No chunks for".
C9_ChunksReadReturnsChunk ==
    [][\A p \in Paths, i \in -1..MaxChunkIdx :
         (resp' # resp /\ resp'.action = "chunks_read"
          /\ resp'.path = p /\ resp'.chunk = i)
         => LET r == resp'.body IN
            IF dirs[p] = NoDir
            THEN r = [error |-> "No chunks for", path |-> p]
            ELSE IF i >= 0 /\ i < dirs[p].manifest.total_chunks
            THEN /\ r.content = dirs[p].chunks[i + 1]
                 /\ r.chunk = i
                 /\ r.total_chunks = dirs[p].manifest.total_chunks
                 /\ r.lines = <<r.content.header.s, r.content.header.e>>
            ELSE r = [error |-> "Chunk not found", chunk |-> i, path |-> p]]_vars

\* chunk 1 of a 500-line file is read: its lines are 181-380
C9_Witness ==
    /\ resp # Absent
    /\ resp.action = "chunks_read"
    /\ resp.chunk = 1
    /\ dirs[resp.path] # NoDir
    /\ dirs[resp.path].manifest.total_lines = 500
    /\ resp.body = [content |-> dirs[resp.path].chunks[2], chunk |-> 1,
                    total_chunks |-> 3, lines |-> <<181, 380>>]

\* C10: chunk_file on a file whose mtime equals the mtime of its manifest
\* changes nothing on disk: no temporary directory is made and no chunk
\* directory changes, whether the scan or the watcher calls it.
C10_SameMtimeIsNoOp ==
    [][\A p \in Paths :
         (/\ ncalls' = ncalls + 1
          /\ lastcall'.path = p
          /\ files[p].exists
          /\ dirs[p] # NoDir
          /\ dirs[p].manifest.mtime = files[p].mtime)
         => dirs' = dirs /\ ntmp' = ntmp]_vars

\* the watcher re-chunks a file the scan has sealed, the mtime unchanged
C10_Witness ==
    /\ lastcall # Absent
    /\ lastcall.name = "chunk_file"
    /\ lastcall.by = "watcher"
    /\ lastcall.outcome = "unchanged"
    /\ dirs[lastcall.path] # NoDir
    /\ files[lastcall.path].exists
    /\ dirs[lastcall.path].manifest.mtime = files[lastcall.path].mtime
    /\ ntmp = 1

(***************************************************************************)
(* The dispatcher: C1, C2                                                  *)
(***************************************************************************)
\* the path is the root or a descendant of it, component by component
IsUnderRoot(path) ==
    Len(path) >= Len(Root) /\ SubSeq(path, 1, Len(Root)) = Root

\* C1: a request with a path argument whose resolved path is not the
\* project root or a descendant of it (a sibling directory whose name
\* starts with the root's name included) is answered with the error
\* "Path outside project root", and no file outside the root is read.
C1_PathConfinement ==
    (dpc = "sent" /\ req.data = "json" /\ req.action \in PathActions
     /\ ~IsUnderRoot(Resolve(req)))
    => /\ reply = PathOutside
       /\ \A f \in opened : IsUnderRoot(f)

\* C2: every response sent has at most 8000 characters, the bare ALIVE of
\* the health probe excepted.
C2_ResponseAtMost8000 ==
    (dpc = "sent" /\ reply # Str("ALIVE")) => TLen(reply) <= MAX_RESPONSE_CHARS

\* the text files of the tree that are not empty and outside the ignore set
ScanEligible == {<<"", "a.py">>, <<"src", "s.py">>}

\* C11: a chunks_list request for a text file of the tree is never answered
\* with an error, and with "pending" when the file has no chunk directory
\* yet; under a fairly scheduled scan every non-empty text file outside the
\* ignore set that is neither modified nor deleted meanwhile eventually has
\* a chunk directory, and once the scan is over chunks_list answers "ready"
\* for it
C11_ScanSealsEveryTextFile ==
    /\ [](sresp # Absent /\ sresp.path \in ScanEligible
            => /\ sresp.body \in {[status |-> "pending"]}
                    \cup {[manifest |-> Manifest(m), status |-> "ready"] :
                            m \in 0..(1 + MaxScanOps)}
               /\ (~sresp.sealed => sresp.body = [status |-> "pending"]))
    /\ \A p \in ScanEligible : <>(p \in stouched \/ sdirs[p] # NoDir)
    /\ [](sresp # Absent /\ sresp.path \in ScanEligible \ stouched
            /\ sresp.scanned
            => sresp.body # [status |-> "pending"])

\* the same for a tree without a link that leaves the root
C11_ScanSealsWithoutLink ==
    sfiles[<<"", "link.txt">>].exists \/ C11_ScanSealsEveryTextFile

\* what an instance shows of its namespace: the user variables pickle
\* accepts, the buffers, the exec counter and the dependency records
Observed(ns) ==
    [variables |-> Restrict(ns.vars, {n \in DOMAIN ns.vars : ns.vars[n].kind = "str"}),
     buffers |-> ns.buffers,
     exec_count |-> ns.exec_count,
     deps |-> ns.deps]

\* C12: after any sequence of init, exec and reset calls, an instance opened
\* on the same state directory shows the same serializable user variables,
\* buffers, exec counter and dependency records as the running instance
C12_NewInstanceObservesTheSame ==
    Observed(_load_state(state_pkl)) = Observed(namespace)

\* what status reports of a namespace that holds nothing
EmptyStatus ==
    [variables |-> {}, buffer_count |-> << >>, exec_count |-> 0,
     staleness |-> [variables |-> {}, buffers |-> {}, none |-> TRUE]]

\* the state file holding the empty state
EmptyStateFile ==
    [vars |-> << >>, buffers |-> << >>, exec_count |-> 0,
     deps |-> [variables |-> << >>, buffers |-> << >>]]

\* C13: once init or reset has returned, whatever preceded it, status
\* reports no user variable, no buffer, the exec counter 0 and no
\* staleness; after reset there is no state file, after init the state file
\* holds the empty state
C13_InitAndResetGiveTheEmptyState ==
    (rresp # Absent /\ rresp.op \in {"init", "reset"})
    => /\ status(namespace, rfiles) = EmptyStatus
       /\ (rresp.op = "reset" => state_pkl = Absent)
       /\ (rresp.op = "init" => state_pkl = EmptyStateFile)

\* an init that followed two other calls and a file operation
C13_Witness ==
    /\ rresp # Absent
    /\ rresp.op = "init"
    /\ rn = MaxReplOps
    /\ rclock > 1

\* C14: the exec counter status reports is the number of exec calls ended
\* since the last init or reset, whether they succeeded or failed
C14_ExecCountCountsEveryExec ==
    status(namespace, rfiles).exec_count = rexecs

\* C15: an exec whose code fails returns a result with success false and
\* the traceback in "error"; afterwards sys.stdout is restored, the tracker
\* is gone, the bindings made before are kept, the exec counter is bumped
\* and the state is persisted
C15_FailedExecReturnsNormally ==
    [][(rn' = rn + 1 /\ rresp' # Absent /\ rresp'.op = "exec"
        /\ rresp'.code.raises # "no")
       => /\ rresp'.body # NoResult
          /\ rresp'.body.success = FALSE
          /\ rresp'.body.error = "Traceback"
          /\ sys_stdout' = "stdout"
          /\ ~namespace'.tracker
          /\ \A n \in DOMAIN namespace.vars \ {rresp'.code.bind} :
                /\ n \in DOMAIN namespace'.vars
                /\ namespace'.vars[n] = namespace.vars[n]
          /\ namespace'.exec_count = namespace.exec_count + 1
          /\ state_pkl' = _save_state(namespace')]_vars

\* C16: for every user-visible name, its dependency record holds every
\* file the helpers read during the most recent exec that bound the name
C16_DependencySuperset ==
    \A n \in DOMAIN namespace.vars \cap DOMAIN rread :
       \A pm \in rread[n] :
          pm[1] \in DOMAIN FilesOf(namespace.deps.variables, n)

\* the staleness an exec or status result carries
StalenessOf(r) ==
    IF r.op = "status" THEN r.body.staleness ELSE r.body.staleness_warning

\* C17: if a name was bound by an exec that read a file and the file was
\* modified or deleted afterwards, every later exec result (of a code that
\* does not bind the name again) and status result reports the name stale
\* for the file, with the reason "modified" or "deleted"
C17_StalenessIsReported ==
    [][(rn' = rn + 1 /\ rresp' # Absent /\ rresp'.op \in {"exec", "status"}
        /\ rresp'.body # NoResult)
       => \A n \in DOMAIN namespace.vars \cap DOMAIN rread :
             (rresp'.op = "status" \/ rresp'.code.bind # n)
             => \A pm \in rread[n] :
                   /\ (rfiles[pm[1]].exists /\ rfiles[pm[1]].mtime # pm[2])
                      => <<n, pm[1], "modified">>
                           \in StalenessOf(rresp').variables
                   /\ ~rfiles[pm[1]].exists
                      => <<n, pm[1], "deleted">>
                           \in StalenessOf(rresp').variables]_vars

\* the request handle_client's data stands for once the connection is over
Request == json_loads(cdata').value

\* the connection ended with bytes that were read to their end or parsed,
\* or on which the probe raised
Answered ==
    /\ cpc = "reading"
    /\ cpc' = "closed"
    /\ cdata' # <<>>
    /\ chow' # "timeout"

\* the data is no JSON, names no action of the daemon, or addresses a part
\* that is not wired up
Malformed == json_loads(cdata').kind # "value"

UnknownAction ==
    /\ ~Malformed
    /\ Request.data = "json"
    /\ Request.action \notin PathActions \cup ReplActions \cup {"status"}

NotWired ==
    /\ ~Malformed
    /\ \/ Request.action \in ReplActions /\ ~wired.repl
       \/ Request.action \in {"chunks_list", "chunks_read"}
          /\ ~wired.chunk_store

\* the error the contract names for the request
ContractError ==
    IF Malformed THEN ErrorReply(Str("Invalid JSON"))
    ELSE IF UnknownAction
    THEN ErrorReply(Str("Unknown action: " \o Request.action))
    ELSE IF Request.action \in ReplActions
    THEN ErrorReply(Str("REPL not available"))
    ELSE ErrorReply(Str("Chunk store not available"))

\* C18: a request that is malformed JSON, names an unknown action, or
\* addresses a sandbox or chunk store that is not wired up is answered with
\* exactly one error object, 'Invalid JSON', 'Unknown action: <name>' or
\* '... not available', and the skeleton cache, the chunk store, the sandbox
\* state and the session statistics are left as they were.
C18_ErrorsAreAnsweredAndChangeNothing ==
    [][(Answered /\ (Malformed \/ UnknownAction \/ NotWired)) =>
         /\ csent' = <<ContractError>>
         /\ UNCHANGED <<cache, mtimes, dirs, namespace, state_pkl, stats>>]_vars

\* the calls recorded for an action
CallsOf(st, action) ==
    IF \E i \in DOMAIN st.per_action : st.per_action[i].action = action
    THEN st.per_action[CHOOSE i \in DOMAIN st.per_action :
                         st.per_action[i].action = action].calls
    ELSE 0

\* the request was served: one response that is no error
Served ==
    /\ Answered
    /\ ~Malformed
    /\ Request.data = "json"
    /\ Len(csent') = 1
    /\ ~IsErrorReply(csent'[1])

\* C19: every request that is served successfully, whatever its action,
\* increases tool_calls and the call count of its action by exactly one and
\* adds the size of its response to bytes_served.
C19_EveryServedActionIsRecorded ==
    [][Served =>
         /\ stats'.tool_calls = stats.tool_calls + 1
         /\ CallsOf(stats', Request.action) = CallsOf(stats, Request.action) + 1
         /\ stats'.bytes_served = stats.bytes_served + TLen(csent'[1])]_vars

\* what a closed connection has received, by the way its read loop ended
ReplyOfClosed ==
    IF cdata = <<>> THEN csent = <<Str("ALIVE")>>
    ELSE IF chow = "timeout" THEN csent = <<>>
    ELSE /\ \/ json_loads(cdata).kind = "value"
            \/ cleft = <<>> /\ cshut
         /\ Len(csent) = 1
         /\ csent[1] # Str("ALIVE")

\* C20: every accepted connection receives at most one reply and is then
\* closed by the server: ALIVE if the peer closes or the read times out
\* before any byte arrived, the JSON response of the request as soon as the
\* accumulated bytes parse as one JSON value or the peer closes after
\* sending bytes, and nothing if the read times out after partial bytes.
C20_OneReplyThenClosed ==
    /\ [](Len(csent) <= 1)
    /\ [](cpc = "reading" => csent = <<>> /\ json_loads(cdata).kind # "value")
    /\ [](cpc = "closed" => ReplyOfClosed)
    /\ (cpc = "reading" ~> cpc = "closed")

(***************************************************************************)
(* Claims about run_server (SpecRun).                                      *)
(***************************************************************************)
\* the ports run_server is to probe
ProbeRange == port .. (port + ProbeCount - 1)

\* bind fails on every port of the probe range
AllBindsFail == \A q \in ProbeRange : q \in busy \/ q > MaxPortNumber

\* the socket is bound to the lowest port of the probe range that is free
BoundToLowestFree ==
    \A p \in sockname :
      /\ p \in ProbeRange
      /\ p \notin busy
      /\ \A q \in ProbeRange : q < p => q \in busy

\* with no port to bind the server accepts nothing, writes no port file, and
\* its main thread ends, unless interrupted, by the exit that follows the stop
\* of the watcher
FailedProbeExits ==
    AllBindsFail =>
      /\ sockname = {}
      /\ ~accepted
      /\ port_file = Absent
      /\ ~Serving
      /\ (~Alive /\ exitpath # "KeyboardInterrupt") =>
           (mpc = "exited" /\ observer = "stopped")

\* C21: the server binds the lowest port of [port, port+19] on which bind
\* succeeds and never a port outside that range; if all 20 binds fail it
\* stops the watcher and exits with a non-zero status, without accepting a
\* connection and without writing the port file.
C21_PortProbing == BoundToLowestFree /\ FailedProbeExits

\* the same for a port argument whose probe range lies within 1 .. 65535
C21_PortProbingOfOrdinaryPorts ==
    (port >= 1 /\ port + ProbeCount - 1 <= MaxPortNumber) => C21_PortProbing

\* the port file names the listening port of this process, which runs
PortFileNamesTheDaemon ==
    /\ rlm_is_dir
    /\ Alive
    /\ server = "listening"
    /\ port_file = [port |-> CHOOSE p \in sockname : TRUE, pid |-> os_getpid]

\* C22: .rlm/port is written after a successful bind, only if .rlm/ exists,
\* with the bound port and the process id, and it is removed on every way
\* out of the accept loop (idle shutdown, interrupt, error): whenever the
\* file exists it names the port of a daemon that is still running.
C22_PortFileLifecycle ==
    /\ port_file # Absent => (sockname # {} /\ PortFileNamesTheDaemon)
    /\ mpc = "returned" => port_file = Absent

\* the same away from port 0, from an interrupt outside the accept loop and
\* from an unlink that fails
C22_PortFileOfAnOrdinaryRun ==
    (/\ port # 0
     /\ exitpath # "KeyboardInterrupt"
     /\ mpc \notin {"stop", "close", "returned"}) => C22_PortFileLifecycle

\* the port file is written where the claim says
C22_FileIsWritten ==
    (rlm_is_dir /\ Serving) =>
       (port_file # Absent /\ port_file.port \in bound_port)

\* run_server returns with the watcher stopped and the socket closed
ReturnsClosed == mpc = "returned" => (observer = "stopped" /\ server = "closed")

\* the accept loop leaves once the event is set, and the `finally` ends
LoopObservesShutdown ==
    /\ (shutdown_event /\ Serving) ~> ~Serving
    /\ (mpc = "finally") ~> (mpc \in {"returned", "died"})

\* C23 as stated: with idle_timeout > 0, if no connection is accepted for
\* longer than idle_timeout, the watchdog eventually sets the shutdown
\* event; the accept loop observes it and stops accepting, and the watcher
\* is stopped and the socket closed before run_server returns.
C23_IdleLongerThanTimeoutShutsDown ==
    /\ (idle_timeout > 0 /\ Serving /\ idle_now > idle_timeout)
          ~> (shutdown_event \/ ~Serving)
    /\ LoopObservesShutdown
    /\ []ReturnsClosed

\* C23: with idle_timeout > 0, once no connection has been accepted for
\* longer than idle_timeout plus the watchdog's period of 60 seconds, the
\* watchdog has set the shutdown event; the accept loop observes the event
\* and stops accepting, and the watcher is stopped and the socket closed
\* before run_server returns.
C23_IdleShutdownWithinAPeriod ==
    /\ [](idle_timeout > 0 /\ Serving /\ idle_now > idle_timeout + WatchdogPeriod
            => shutdown_event)
    /\ LoopObservesShutdown
    /\ []ReturnsClosed

\* the server has returned after an idle shutdown
C23_Witness ==
    /\ mpc = "returned"
    /\ exitpath = "idle"
    /\ shutdown_event
    /\ idle_now > idle_timeout
    /\ observer = "stopped"
    /\ server = "closed"

\* C24: the watchdog sets the shutdown event only when, at its check, more
\* than idle_timeout seconds have passed since the last accepted connection
\* (the idle time it reads is the time since the last accept, which every
\* accept resets); with idle_timeout = 0 no watchdog runs and the server
\* never shuts down for idleness.
C24_IdleShutdownOnlyWhenIdle ==
    [][/\ (~shutdown_event /\ shutdown_event') =>
            (idle_timeout > 0 /\ ipc = "check" /\ idle_secs > idle_timeout)
       /\ (ipc # "check" /\ ipc' = "check") => idle_secs' = idle_now
       /\ (mpc = "accept" /\ mpc' = "loop" /\ idle_now' # idle_now)
            => idle_now' = 0
       /\ idle_timeout = 0 =>
            (ipc' = "none" /\ ~shutdown_event' /\ exitpath' # "idle")]_vars

\* the watchdog has set the event at a check that followed an accept
C24_Witness ==
    /\ shutdown_event
    /\ ipc = "done"
    /\ accepted
    /\ idle_timeout > 0

(***************************************************************************)
(* Claims about the swap of a chunk directory (SpecSwap).                  *)
(***************************************************************************)
\* the last request read a file that had a sealed chunk directory, no
\* deleted event handled since, and no file operation of chunk_file failed
AnsweredWhileSealed == qresp # NoReply /\ qhad /\ xfaults = 0

\* C25: while a file that already has a sealed chunk directory is chunked
\* again beside chunks_list / chunks_read requests, every request observes
\* the complete old chunk set or the complete new one: it never finds the
\* manifest missing ("pending", "No chunks for") and never combines the
\* manifest of one generation with the chunk content of another.
C25_RequestsSeeOneGeneration ==
    AnsweredWhileSealed =>
      /\ qresp.action = "chunks_list" => qresp.status = "ready"
      /\ qresp.action = "chunks_read" =>
           ("content" \in DOMAIN qresp /\ qresp.content = qresp.manifest)

\* C26: if a step of chunk_file's update fails (writing a chunk or the
\* manifest, removing the old directory, renaming the temporary directory),
\* the temporary directory is deleted and the chunk directory sealed before
\* the call is still there, unchanged; after chunk_file has returned,
\* successfully or not, no temporary directory remains.
C26_FailedUpdateKeepsTheOldDirectory ==
    \A t \in SwapThreads :
      /\ (xout[t] = "failed" /\ xquiet[t] /\ xbefore[t] # NoDir) =>
            xdir = xbefore[t]
      /\ xpc[t] = "idle" => ~xtmp[t]

\* what holds of it: no temporary directory outlives its call, and a write
\* that fails before the swap leaves the old directory alone
C26_NoTemporaryDirectoryRemains ==
    \A t \in SwapThreads :
      /\ xpc[t] = "idle" => ~xtmp[t]
      /\ (xout[t] = "failed" /\ xquiet[t] /\ xbefore[t] # NoDir /\ xdir # NoDir)
            => (xdir = xbefore[t] \/ xdir \in Remains(xbefore[t]))

\* the watcher has handled the deleted event of the file, which has not
\* been created again
DeletedAndHandled ==
    ~xfile.exists /\ xevents = <<>> /\ xpc["watch"] = "idle" /\ xfaults = 0

\* C27: after the watcher has handled the deleted event of a file, no chunk
\* directory of the file exists, and none appears again unless the file is
\* created again, also when a chunk_file of the file was in progress when
\* it was deleted.
C27_NoChunkDirectoryAfterDelete == DeletedAndHandled => xdir = NoDir

\* the same when no chunk_file of the scan was in progress while the
\* deleted event was handled
C27_NoChunkDirectoryWithoutRace ==
    (DeletedAndHandled /\ ~xraced) => xdir = NoDir

(***************************************************************************)
(* The watcher invalidating the skeleton cache: C28 (SpecCache)            *)
(***************************************************************************)
\* the observer thread has handled every event of p
EventsHandled(p) == \A i \in 1..Len(events) : events[i].path # p

\* the step is the observer thread handling a modified or deleted event: the
\* entry of the event's path is gone after it and the other entries are as
\* they were, so the size has dropped by one exactly when the path was cached
InvalidateDropsTheEntry ==
    (events # <<>> /\ events' = Tail(events)
       /\ Head(events).kind \in {"modified", "deleted"}) =>
        LET p == Head(events).path IN
        /\ p \notin DOMAIN cache'
        /\ p \notin DOMAIN mtimes'
        /\ DOMAIN cache' = DOMAIN cache \ {p}
        /\ Cardinality(DOMAIN cache') =
              Cardinality(DOMAIN cache) - (IF p \in DOMAIN cache THEN 1 ELSE 0)
        /\ \A q \in DOMAIN cache' :
              cache'[q] = cache[q] /\ mtimes'[q] = mtimes[q]

\* once every event of p is handled, a skeleton cached for p is the skeleton
\* of the file as it is: a skeleton of another content, or of a file that is
\* gone, was read before the last modified or deleted event of p
NoEntryFromBeforeTheEvent ==
    \A p \in DOMAIN cache :
        (EventsHandled(p) /\ IsSkeleton(cache[p])) =>
            /\ files[p].exists
            /\ cache[p] = skeleton_of(p, files[p].content)

\* C28: after the watcher has handled a modified or deleted event for p, the
\* cache holds no entry for p computed before the event (the size drops by one
\* if p was cached) and the entries of the other paths are unchanged, also
\* when a get of p was in progress during the event.
C28_NoEntryOutlivesItsEvent ==
    [][InvalidateDropsTheEntry]_vars /\ []NoEntryFromBeforeTheEvent

\* the part of C28 about the handling step itself
C28_HandlingDropsTheEntry == [][InvalidateDropsTheEntry]_vars

(***************************************************************************)
(* The watcher's events: C29, C30 (SpecWatch)                              *)
(***************************************************************************)
\* the step is the handler taking the oldest event
Handling == hevents # <<>> /\ hevents' = Tail(hevents)

\* the deleted event of the source and the created event of the destination
\* of a moved event
DeletedOf(event) ==
    [event_type |-> "deleted", is_directory |-> event.is_directory,
     src_path |-> event.src_path, dest_path |-> NoDest]

CreatedOf(event) ==
    [event_type |-> "created", is_directory |-> event.is_directory,
     src_path |-> event.dest_path, dest_path |-> NoDest]

\* what deleted(src) followed by created(dest) does
deleted_then_created(st, event, fs) ==
    on_created(on_deleted(st, DeletedOf(event), fs), CreatedOf(event), fs)

\* C29: handling a moved event (src -> dest) has the same effect on the
\* skeleton cache, the sandbox notification and the chunk store as handling
\* deleted(src) followed by created(dest), each under the ignore filter of
\* its own path; a directory move is ignored.
C29_MovedIsDeletedThenCreated ==
    [][(Handling /\ Head(hevents).event_type = "moved") =>
          hstate' = deleted_then_created(hstate, Head(hevents), hfiles)]_vars

\* the part of C29 that holds: a moved file whose source is not ignored
\* leaves the chunk store as deleted(src) followed by created(dest) does,
\* with no more cached and no less notified
C29_MovedFileChunksAlike ==
    [][(Handling /\ Head(hevents).event_type = "moved"
          /\ ~Head(hevents).is_directory
          /\ ~_should_ignore(Head(hevents).src_path)) =>
          LET st == deleted_then_created(hstate, Head(hevents), hfiles) IN
          /\ hstate'.chunks = st.chunks
          /\ hstate'.cache \subseteq st.cache
          /\ st.notified \subseteq hstate'.notified]_vars

\* an ignored name: a name of the ignore set or a name beginning with "."
IgnoredName(name) == name \in IGNORED_DIRS \/ SubSeq(name, 1, 1) = "."

\* the path has an ignored component
UnderIgnoredName(path) == \E i \in 1..Len(path) : IgnoredName(path[i])

\* the paths of an event
EventPaths(event) ==
    {event.src_path} \cup
    (IF event.event_type = "moved" THEN {event.dest_path} ELSE {})

\* the event of this step lies under an ignored name: nothing changes
IgnoredEventChangesNothing ==
    (Handling /\ \A p \in EventPaths(Head(hevents)) : UnderIgnoredName(p)) =>
        hstate' = hstate

\* the event of this step is the created or modified event of a file: the
\* watcher hands it to the chunker exactly if the scan would
WatcherChunksWhatTheScanChunks ==
    (Handling /\ Head(hevents).event_type \in {"created", "modified"}) =>
        (_should_ignore(Head(hevents).src_path) <=>
            ~ScanVisits(Head(hevents).src_path))

\* no chunk directory for a path with an ignored component
NoChunksUnderIgnoredNames == \A p \in hstate.chunks : ~UnderIgnoredName(p)

\* C30: no watcher event whose path lies under an ignored name (a name of
\* the ignore set, or any name beginning with ".") changes the skeleton
\* cache, the sandbox or the chunk store; the watcher and the initial scan
\* chunk the same set of files, and no chunk directory exists for a path with
\* an ignored component.
C30_IgnoredPathsAreNeverTouched ==
    /\ [][IgnoredEventChangesNothing /\ WatcherChunksWhatTheScanChunks]_vars
    /\ []NoChunksUnderIgnoredNames

\* the part of C30 that holds: an event whose source path has a component
\* in IGNORED_DIRS changes nothing
C30_IgnoreSetEventsChangeNothing ==
    [][(Handling /\ _should_ignore(Head(hevents).src_path)) =>
          hstate' = hstate]_vars

(***************************************************************************)
(* The boundary loops: C31, C40 (SpecWindows)                              *)
(***************************************************************************)
\* C31: chunk_indices of the sandbox and the boundary computation of the
\* chunk store are the same function: for every line count, size and overlap
\* with 0 <= overlap < size they give the same list of (start, end) pairs,
\* the first pair being (1, 200) for 500 lines with 200/20, and chunk_indices
\* gives the empty list for a missing file.
C31_SameWindows ==
    /\ bres.by = "chunk_indices" =>
          /\ bres.list = chunk_file_boundaries(bargs, bargs.size, bargs.overlap)
          /\ (~bargs.exists => bres.list = <<>>)
    /\ bres.by = "chunk_file" =>
          bres.list = chunk_indices(bargs, bargs.size, bargs.overlap)
    /\ (bres.by # None /\ bargs.exists /\ bargs.total = 500
          /\ bargs.size = 200 /\ bargs.overlap = 20) =>
          bres.list = <<<<1, 200>>, <<181, 380>>, <<361, 500>>>>

\* C31 witness: chunk_indices has answered for a file of several windows
C31_Witness ==
    /\ bres.by = "chunk_indices"
    /\ bargs.exists
    /\ bargs.overlap > 0
    /\ Len(bres.list) >= 3

\* the windows w of a file of total lines
GoodWindows(w, total) ==
    /\ Len(w) <= total
    /\ (total = 0 <=> w = <<>>)
    /\ \A i \in 1..Len(w) : 1 <= w[i][1] /\ w[i][1] <= w[i][2]
    /\ \A i \in 1..(Len(w) - 1) :
          /\ w[i][1] < w[i + 1][1]
          /\ w[i + 1][1] <= w[i][2] + 1
    /\ \A line \in 1..total :
          \E i \in 1..Len(w) : w[i][1] <= line /\ line <= w[i][2]
    /\ (w # <<>> => w[1][1] = 1 /\ w[Len(w)][2] = total)

\* C40: for every line count >= 0 and 0 <= overlap < size the boundary loop
\* of chunk_file and of chunk_indices ends (with at most one window per
\* line), the starts of its windows strictly increase, each window starts no
\* later than one line after the previous end, every line lies in a window,
\* the last window ends at the last line, and no lines give no window.
C40_WindowsCoverTheFile ==
    (bres.by # None /\ bargs.exists) => GoodWindows(bres.list, bargs.total)

\* C40 witness: the loop of chunk_file has given overlapping windows
C40_Witness ==
    /\ bres.by = "chunk_file"
    /\ bargs.exists
    /\ bargs.overlap > 0
    /\ Len(bres.list) >= 3
    /\ bres.list[2][1] <= bres.list[1][2]

(***************************************************************************)
(* The dependency records of the sandbox: C32 .. C35 (SpecRepl)            *)
(***************************************************************************)
\* the step is an exec that returns its result
ExecReturns ==
    /\ rn' = rn + 1
    /\ rresp' # Absent
    /\ rresp'.op = "exec"
    /\ rresp'.body # NoResult

\* the name the exec of this step created or re-bound gets the tracker's map
\* merged into its record: prior files kept, new files added, files of both
\* at the mtime the tracker read
BoundNameIsMerged ==
    LET code == rresp'.code
        tracked == get_tracked(code, rfiles)
    IN  (ExecReturns /\ code.bind # None /\ DOMAIN tracked # {}) =>
            /\ code.bind \in DOMAIN namespace'.deps.variables
            /\ namespace'.deps.variables[code.bind] =
                  Update(FilesOf(namespace.deps.variables, code.bind), tracked)

\* the record of a name the exec of this step neither created nor re-bound is
\* as it was
OtherNamesAreLeftAlone ==
    ExecReturns =>
        \A k \in (DOMAIN namespace.deps.variables
                    \cup DOMAIN namespace'.deps.variables) \ {rresp'.code.bind} :
            /\ k \in DOMAIN namespace.deps.variables
            /\ k \in DOMAIN namespace'.deps.variables
            /\ namespace'.deps.variables[k] = namespace.deps.variables[k]

\* C32: after an exec the tracker's file map is merged additively into the
\* dependency record of each user-visible name created or re-bound during
\* the call, and the record of every other name is left unchanged.
C32_MergeOnlyIntoBoundNames ==
    [][BoundNameIsMerged /\ OtherNamesAreLeftAlone]_vars

\* the part of C32 about the names the call bound
C32_BoundNamesAreMerged == [][BoundNameIsMerged]_vars

\* the files the helper calls `calls` opened and read
TouchedBy(calls, fs) == UNION {Reads(calls[i], fs) : i \in DOMAIN calls}

\* the exec of this step called add_buffer: the text is the last element of
\* the buffer, the earlier elements are as they were
BufferIsAppended ==
    LET code == rresp'.code
        old == IF code.buffer \in DOMAIN namespace.buffers
               THEN namespace.buffers[code.buffer] ELSE <<>>
    IN  (ExecReturns /\ code.buffer # None) =>
            /\ code.buffer \in DOMAIN namespace'.buffers
            /\ namespace'.buffers[code.buffer] =
                  Append(old, [kind |-> "str", at |-> rn + 1])

\* the record of that buffer keeps its files and holds what the tracker held
\* when add_buffer was called
BufferRecordIsMerged ==
    LET code == rresp'.code IN
    (ExecReturns /\ code.buffer # None) =>
        /\ code.buffer \in DOMAIN namespace'.deps.buffers
        /\ namespace'.deps.buffers[code.buffer] =
              Update(FilesOf(namespace.deps.buffers, code.buffer),
                     tracked_after(code.calls, rfiles))

\* the record of that buffer holds every file the helpers touched before
\* add_buffer was called
BufferRecordHoldsTheTouched ==
    LET code == rresp'.code IN
    (ExecReturns /\ code.buffer # None) =>
        /\ code.buffer \in DOMAIN namespace'.deps.buffers
        /\ \A f \in TouchedBy(code.calls, rfiles) :
              \E key \in DOMAIN namespace'.deps.buffers[code.buffer] :
                  FileOf(key) = f
        /\ \A key \in DOMAIN FilesOf(namespace.deps.buffers, code.buffer) :
              key \in DOMAIN namespace'.deps.buffers[code.buffer]

\* the buffers the exec of this step appended nothing to, and their records,
\* are as they were
OtherBuffersAreLeftAlone ==
    ExecReturns =>
        /\ \A k \in (DOMAIN namespace.buffers \cup DOMAIN namespace'.buffers)
                      \ {rresp'.code.buffer} :
              /\ k \in DOMAIN namespace.buffers
              /\ k \in DOMAIN namespace'.buffers
              /\ namespace'.buffers[k] = namespace.buffers[k]
        /\ \A k \in (DOMAIN namespace.deps.buffers
                       \cup DOMAIN namespace'.deps.buffers)
                      \ {rresp'.code.buffer} :
              /\ k \in DOMAIN namespace.deps.buffers
              /\ k \in DOMAIN namespace'.deps.buffers
              /\ namespace'.deps.buffers[k] = namespace.deps.buffers[k]

\* C33: after an exec that calls add_buffer(key, text) the buffer has the
\* text as its last element, the earlier elements kept; the record of the
\* buffer holds every file the helpers touched in that exec before the call,
\* with its previous files; the buffers the exec appended nothing to keep
\* their contents and their records.
C33_AddBufferAppendsAndRecords ==
    [][BufferIsAppended /\ BufferRecordHoldsTheTouched
         /\ OtherBuffersAreLeftAlone]_vars

\* the part of C33 that holds: the buffer is appended to, its record is
\* merged with what the tracker held at the call, the other buffers stay
C33_AddBufferMergesTheTracker ==
    [][BufferIsAppended /\ BufferRecordIsMerged /\ OtherBuffersAreLeftAlone]_vars

\* the step is a status or an exec returning its result, the staleness report
\* in it
ReportReturns ==
    /\ rn' = rn + 1
    /\ rresp' # Absent
    /\ rresp'.op \in {"status", "exec"}
    /\ rresp'.body # NoResult

\* the entries of a report, one per record: <<kind, name, key, reason>>
EntriesOf(report) ==
    {<<"variables", e[1], e[2], e[3]>> : e \in report.variables}
    \cup {<<"buffers", e[1], e[2], e[3]>> : e \in report.buffers}

\* what the claim expects for the record r with the files fs: "deleted" for
\* a file that is gone, "modified" for another mtime, no entry otherwise
ExpectedReason(ns, r, fs) ==
    IF ~fs[FileOf(r[3])].exists THEN "deleted"
    ELSE IF fs[FileOf(r[3])].mtime # ns.deps[r[1]][r[2]][r[3]] THEN "modified"
    ELSE None

ExpectedEntries(ns, fs) ==
    {<<r[1], r[2], r[3], ExpectedReason(ns, r, fs)>> :
        r \in {x \in RecordsOf(ns) : ExpectedReason(ns, x, fs) # None}}

\* an exec that used no file helper has added no record
NoHelperNoRecord ==
    (ExecReturns /\ rresp'.code.calls \o rresp'.code.then = <<>>) =>
        /\ RecordsOf(namespace') = RecordsOf(namespace)
        /\ \A r \in RecordsOf(namespace) :
              RecordedMtime(namespace', r) = RecordedMtime(namespace, r)

\* the report is absent exactly when it has no entry
AbsentWhenEmpty(report) == report.none <=> EntriesOf(report) = {}

\* C34: the staleness report of status and exec has an entry (name, file,
\* reason) exactly for the tracked records whose file no longer exists
\* ("deleted") or whose mtime differs from the recorded one ("modified"); it
\* is absent when there is no such record; an exec that uses no file helper
\* adds no dependency record.
C34_ReportIsDeletedOrModified ==
    [][/\ ReportReturns =>
            /\ EntriesOf(StalenessOf(rresp')) =
                  ExpectedEntries(namespace', rfiles')
            /\ AbsentWhenEmpty(StalenessOf(rresp'))
       /\ NoHelperNoRecord]_vars

\* the reason the report gives for the record r, or None
ReasonGiven(report, r) ==
    IF \E e \in EntriesOf(report) : <<e[1], e[2], e[3]>> = r
    THEN (CHOOSE e \in EntriesOf(report) : <<e[1], e[2], e[3]>> = r)[4]
    ELSE None

\* C34 as amended: while no file changes during the call the report is as
\* C34 says; when a file is deleted during the call, a record of that file
\* is reported as the file was before, as it is after, or "inaccessible"
\* (the file vanished between os.path.exists and os.path.getmtime), and the
\* records of the other files are reported as C34 says.
C34_ReportWithInaccessible ==
    [][/\ ReportReturns =>
            LET report == StalenessOf(rresp') IN
            /\ AbsentWhenEmpty(report)
            /\ \A e \in EntriesOf(report) :
                  /\ <<e[1], e[2], e[3]>> \in RecordsOf(namespace')
                  /\ e[4] = ReasonGiven(report, <<e[1], e[2], e[3]>>)
            /\ rfiles' = rfiles =>
                  EntriesOf(report) = ExpectedEntries(namespace', rfiles)
            /\ \A r \in RecordsOf(namespace') :
                  IF rfiles'[FileOf(r[3])] = rfiles[FileOf(r[3])]
                  THEN ReasonGiven(report, r) =
                          ExpectedReason(namespace', r, rfiles)
                  ELSE ReasonGiven(report, r) \in
                          {ExpectedReason(namespace', r, rfiles),
                           ExpectedReason(namespace', r, rfiles'),
                           "inaccessible"}
       /\ NoHelperNoRecord]_vars

\* C34 witness: a status has reported a variable stale for a modified file
\* and a buffer stale as well
C34_Witness ==
    /\ rresp # Absent
    /\ rresp.op = "status"
    /\ \E e \in rresp.body.staleness.variables : e[3] = "modified"
    /\ rresp.body.staleness.buffers # {}
    /\ ~rresp.body.staleness.none

\* the step is invalidate_dependencies returning
InvalidateReturns ==
    /\ rn' = rn + 1
    /\ rresp' # Absent
    /\ rresp'.op = "invalidate"

\* the names whose record holds a key of the file p
NamesOfFile(ns, p) ==
    {<<"var", r[2]>> :
        r \in {x \in RecordsOf(ns) : x[1] = "variables" /\ FileOf(x[3]) = p}}
    \cup
    {<<"buffer", r[2]>> :
        r \in {x \in RecordsOf(ns) : x[1] = "buffers" /\ FileOf(x[3]) = p}}

\* the names whose record holds p itself as a key
NamesOfKey(ns, p) ==
    {<<"var", r[2]>> :
        r \in {x \in RecordsOf(ns) : x[1] = "variables" /\ x[3] = p}}
    \cup
    {<<"buffer", r[2]>> :
        r \in {x \in RecordsOf(ns) : x[1] = "buffers" /\ x[3] = p}}

\* the call leaves the namespace with its buffers and dependency records,
\* the exec count, the state file and the files as they were
InvalidateChangesNothing ==
    UNCHANGED <<namespace, state_pkl, rexecs, rfiles, sys_stdout>>

\* C35: invalidate_dependencies(path) returns exactly the names whose
\* dependency record contains the path, 'var:<name>' for variables and
\* 'buffer:<key>' for buffers, and changes nothing: namespace, buffers,
\* dependency records with their mtimes, exec count and state file are the
\* same before and after the call.
C35_InvalidateNamesTheDependents ==
    [][InvalidateReturns =>
          /\ rresp'.body.affected = NamesOfFile(namespace, rresp'.body.path)
          /\ InvalidateChangesNothing]_vars

\* what holds of invalidate_dependencies: it changes nothing, every name it
\* returns depends on the file, and it returns the names whose record holds
\* the path written as the watcher's path is, relative to the root
C35_InvalidateChangesNothing ==
    [][InvalidateReturns =>
          /\ NamesOfKey(namespace, rresp'.body.path) = rresp'.body.affected
          /\ rresp'.body.affected \subseteq
                NamesOfFile(namespace, rresp'.body.path)
          /\ InvalidateChangesNothing]_vars

\* no thread is inside record: the states the other threads can read, all
\* reads of the counters being under the lock
NoRecordInProgress ==
    \A t \in DOMAIN threads : threads[t].at \in {"idle", "lock", "59", "release"}
                              /\ (threads[t].at \in {"59", "release"}
                                  => threads[t].action = "to_dict")

\* the sum of a per-action counter over all actions
SumOver(per_action, field) ==
    LET RECURSIVE Sum(_)
        Sum(i) == IF i = 0 THEN 0 ELSE per_action[i][field] + Sum(i - 1)
    IN  Sum(Len(per_action))

\* the session counters are non-negative and are the per-action sums
CountersAreSums(st) ==
    /\ st.tool_calls >= 0 /\ st.bytes_served >= 0 /\ st.bytes_avoided >= 0
    /\ st.tool_calls = SumOver(st.per_action, "calls")
    /\ st.bytes_served = SumOver(st.per_action, "bytes_served")
    /\ st.bytes_avoided = SumOver(st.per_action, "bytes_avoided")

C38_NoIdleExitWhileHandling ==
    (mpc \in {"returned", "ended"} /\ exitpath = "idle") =>
        \A i \in DOMAIN threads : threads[i] = "answered"

\* C39: the watcher's handling of a modified or deleted event completes
\* without waiting for sandbox operations: a repl_exec still running on a
\* worker thread delays neither the re-chunking of the file nor the
\* handling of later events, that is, the handler is never at a lock that
\* a running exec holds.
C39_WatcherNeverWaitsForExec ==
    ~(/\ threads.watcher.at = "notify"
      /\ lock = "worker"
      /\ threads.worker.at = "exec")

\* what holds of the handler: it waits for nothing but the sandbox's lock,
\* and holds that lock over no other call
C39_WatcherWaitsOnlyForTheSandbox ==
    /\ threads.watcher.at \in {"inside", "chunk"} => ENABLED
          (NotifyLeave \/ NotifyChunk)
    /\ threads.watcher.at = "notify" =>
          (lock = None \/ (lock = "worker" /\ threads.worker.at = "exec"))
    /\ lock = "watcher" <=> threads.watcher.at = "inside"

\* every watcher event of p has been handled (the calls of chunk_file being
\* single steps, none is in progress between steps)
Quiescent(p) == \A i \in DOMAIN events : events[i].path # p

\* p is a non-empty UTF-8 text file
NonEmptyText(p) ==
    /\ files[p].exists
    /\ files[p].content.utf8
    /\ files[p].content.lines > 0

\* the chunk directory of p is the one chunk_file writes for the file as it
\* is: the manifest holds its mtime, the chunks hold its lines
ChunksAreCurrent(p) ==
    /\ dirs[p] # NoDir
    /\ dirs[p].manifest.mtime = files[p].mtime
    /\ dirs[p] = written_dir(p, files[p], chunk_size, overlap)

\* C37: whenever all watcher events of an existing file have been handled
\* and no chunk_file call for it is in progress, a sealed chunk directory
\* for the file exists exactly if it is a non-empty UTF-8 text file, and
\* then the manifest mtime is the file's mtime and the chunks hold the
\* file's lines; a file that became empty has no chunks.
C37_ChunkStoreCoherentAtQuiescence ==
    \A p \in ChunkPaths :
        (files[p].exists /\ Quiescent(p)) =>
            /\ dirs[p] # NoDir <=> NonEmptyText(p)
            /\ dirs[p] # NoDir => ChunksAreCurrent(p)

\* what holds at quiescence: a non-empty UTF-8 text file has its current
\* chunks
C37_TextFilesHaveCurrentChunks ==
    \A p \in ChunkPaths :
        (Quiescent(p) /\ NonEmptyText(p)) => ChunksAreCurrent(p)

====
